---- MODULE Spec2Model ----
(***************************************************************************)
(* Verification model of the API test generation platform.                 *)
(*                                                                         *)
(*   ConfigSpec   the configuration page (frontend/src/pages/Config.tsx)   *)
(*                with the config slice of the store                       *)
(*   ResultsSpec  the Results page (frontend/src/pages/Results.tsx) next   *)
(*                to the executor that runs the execution it shows         *)
(*   ExecSpec     the test executor on its own                             *)
(*   SuiteSpec    generation and deletion of the test cases of a suite     *)
(*   ConfigFormSpec, ConfigVisitSpec, IntegrationSpec                      *)
(*                the form, the visits and the integrations of the         *)
(*                configuration page                                       *)
(*   TestSuiteSpec, TestEditSpec, ViewsSpec                                *)
(*                the test suite page (frontend/src/pages/TestSuite.tsx)   *)
(*   ProjectSpec, ReportsSpec, KeySpec, ResultsIssueSpec                   *)
(*                the project page, the Reports page, the endpoint keys    *)
(*                and the issue dialog of the Results page                 *)
(*   TestsSliceSpec, ApiSpec                                               *)
(*                the tests slice of the store and the api client          *)
(*                                                                         *)
(* The executor and the suite live in the backend; they are modelled from  *)
(* the specification's sections 3 to 7.                                    *)
(*                                                                         *)
(* Every page is a state machine of its own: a specification moves the     *)
(* variables of its page and leaves the others at their initial values.    *)
(* Text is modelled as a sequence of characters.                           *)
(***************************************************************************)
EXTENDS Naturals, Integers, Sequences, FiniteSets, TLC

VARIABLES
    \* ---- configuration page ----
    mounted,            \* the Config component is on screen
    config,             \* state.config.config of the store
    cfgPending,         \* a fetchConfig request is in flight
    formData,           \* useState formData
    llmKeyMasked,       \* useState llmKeyMasked
    llmKeyPlaceholder,  \* useState llmKeyPlaceholder
    request,            \* the save / test-llm request in flight, kind "none" if none
    keyTyped,           \* history: the last text typed into the editable key field
    projectId,          \* useParams: the project of the page
    cfgError,           \* state.config.error of the store
    selectedConfigId,   \* useState selectedConfigId
    \* ---- test executor (server) ----
    execStatus,         \* TestExecution.status
    selected,           \* the selected test case indices, in scheduling order
    results,            \* TestExecution.results
    summary,            \* TestExecution.summary
    outcomes,           \* history: what happened to the request of each case run
    \* ---- results page ----
    resMounted,         \* the Results component is on screen
    execution,          \* useState execution
    loading,            \* useState loading
    requests,           \* useState requests
    sse,                \* the EventSource: "none", "open", "failed" or "closed"
    polling,            \* the interval of startPolling is armed
    fetching,           \* GET /execute/{id} requests in flight
    closureExecution,   \* `execution` as seen by the closures of the mount render
    sources,            \* history: the ways a payload has arrived so far
    \* ---- test suite (server) ----
    suite,              \* TestSuite.test_cases
    createdIndex,       \* history: the index each test case was created with
    \* ---- results page, issue dialog ----
    issueDialogOpen,    \* useState issueDialogOpen
    selectedTestIndex,  \* useState selectedTestIndex, -1 for null
    issueFor,           \* history: the result the dialog was opened on
    issueRequest,       \* the issue request in flight and, as history, the result
                        \* its dialog showed; test_index -1 if none
    \* ---- endpoint keys ----
    keySite,            \* the page that builds and splits the key
    keyInput,           \* the endpoint the key is built for
    keyText,            \* the key, empty before it is built
    keyOut,             \* the endpoint read back from the key
    \* ---- test suite page ----
    storedAssertions,   \* server: the assertions stored with each test case, by uid
    tsMounted,          \* the TestSuite component is on screen
    testSuite,          \* useState testSuite
    tsLoading,          \* useState loading
    selectedTests,      \* useState selectedTests: a Set, in insertion order
    executing,          \* useState executing
    executeRequest,     \* the execute request in flight
    deletingEndpoint,   \* useState deletingEndpoint, empty for null
    deletingAll,        \* useState deletingAll
    deleteRequest,      \* the delete handler in progress and its request
    editDialogOpen,     \* useState editDialogOpen
    editingTestCase,    \* useState editingTestCase
    editedPayload,      \* useState editedPayload
    editedHeaders,      \* useState editedHeaders
    editedAssertions,   \* useState editedAssertions
    editedShared,       \* editedAssertions is the array of the loaded test case
    assertionDialogOpen,\* useState assertionDialogOpen
    editingAssertion,   \* useState editingAssertion
    assertionIndex,     \* useState assertionIndex
    runningTest,        \* useState runningTest, -1 for null
    singleRequest,      \* the single-test request in flight
    \* ---- project page ----
    pdMounted,          \* the ProjectDetail component is on screen
    generatedEndpoints, \* useState generatedEndpoints: keys
    selectedEndpoints,  \* useState selectedEndpoints: a Set of keys, in insertion order
    tabValue,           \* useState tabValue
    testLoading,        \* state.tests.loading of the store
    latestPending,      \* the fetchLatestTestSuite of the mount is in flight
    generatedPending,   \* the fetchGeneratedEndpoints of the mount is in flight
    generateRequest,    \* the generate handler in progress and its request
    \* ---- reports page ----
    rpMounted,          \* the Reports component is on screen
    rpScope,            \* useParams: which report the route names
    reportData,         \* useState reportData
    rpLoading,          \* useState loading of the Reports page
    days,               \* useState days
    reportMode,         \* useState reportMode
    downloading,        \* useState downloading
    projectsData,       \* useState projectsData
    expandedEndpoints,  \* useState expandedEndpoints: a Set of endpoints
    endpointTestCases,  \* useState endpointTestCases
    loadingTestCases,   \* useState loadingTestCases: a Set of endpoints
    isCleared,          \* useState isCleared
    reportPending,      \* the report request in flight
    projectsPending,    \* GET /reports/projects requests in flight
    togglePending,      \* per endpoint, the test-cases request in flight
    \* ---- configuration page: integrations ----
    intOpen,            \* the Config component is on screen (integration section)
    integrationProvider,\* useState integrationProvider
    integrationToken,   \* useState integrationToken
    hasExistingIntegrationToken,\* useState hasExistingIntegrationToken
    intLoading,         \* the loadIntegrations request is in flight
    intSave,            \* the Save Integration request in flight
    intStored,          \* server: per provider, what is stored for the project
    \* ---- tests slice of the store ----
    storeTestSuite,     \* state.tests.testSuite
    storeExecution,     \* state.tests.execution
    testError,          \* state.tests.error
    pendingThunks,      \* per thunk of the slice, its requests in flight
    latestAnswer,       \* history: the status of the last answer to fetchLatestTestSuite
    \* ---- api client ----
    apiToken,           \* localStorage item 'token'
    apiInFlight,        \* the requests sent and not yet answered, with the headers they carry
    apiOutcome,         \* what the last settled request gave its caller
    apiSince401,        \* history: a 401 was answered and no token has been stored since
    \* ---- test suite page, views ----
    viewTests,          \* testSuite.all_tests of the suite on display
    searchQuery,        \* the text of the search box
    viewMode            \* 'grouped' or 'list'

cfgVars == <<mounted, config, cfgPending, formData, llmKeyMasked,
            llmKeyPlaceholder, request, keyTyped, projectId, cfgError,
            selectedConfigId>>

execVars == <<execStatus, selected, results, summary, outcomes>>

resVars == <<resMounted, execution, loading, requests, sse, polling, fetching,
             closureExecution, sources>>

suiteVars == <<suite, createdIndex>>

issueVars == <<issueDialogOpen, selectedTestIndex, issueFor, issueRequest>>

keyVars == <<keySite, keyInput, keyText, keyOut>>

tsVars == <<storedAssertions, tsMounted, testSuite, tsLoading, selectedTests, executing, executeRequest, deletingEndpoint, deletingAll, deleteRequest, editDialogOpen, editingTestCase, editedPayload, editedHeaders, editedAssertions, editedShared, assertionDialogOpen, editingAssertion, assertionIndex, runningTest, singleRequest>>

pdVars == <<pdMounted, generatedEndpoints, selectedEndpoints, tabValue, testLoading, latestPending, generatedPending, generateRequest>>

rpVars == <<rpMounted, rpScope, reportData, rpLoading, days, reportMode, downloading, projectsData, expandedEndpoints, endpointTestCases, loadingTestCases, isCleared, reportPending, projectsPending, togglePending>>

intVars == <<intOpen, integrationProvider, integrationToken, hasExistingIntegrationToken, intLoading, intSave, intStored>>

slVars == <<storeTestSuite, storeExecution, testError, pendingThunks, latestAnswer>>

apiVars == <<apiToken, apiInFlight, apiOutcome, apiSince401>>

vwVars == <<viewTests, searchQuery, viewMode>>

vars == <<cfgVars, execVars, resVars, suiteVars, issueVars, keyVars, tsVars, pdVars, rpVars, intVars, slVars, apiVars, vwVars>>

\* an action of one part leaves the other parts alone
OnlyConfig == UNCHANGED <<execVars, resVars, suiteVars, issueVars, keyVars, tsVars, pdVars, rpVars, intVars, slVars, apiVars, vwVars>>
OnlyExec == UNCHANGED <<cfgVars, resVars, suiteVars, issueVars, keyVars, tsVars, pdVars, rpVars, intVars, slVars, apiVars, vwVars>>
OnlyResults == UNCHANGED <<cfgVars, execVars, suiteVars, issueVars, keyVars, tsVars, pdVars, rpVars, intVars, slVars, apiVars, vwVars>>
OnlySuite == UNCHANGED <<cfgVars, execVars, resVars, issueVars, keyVars, tsVars, pdVars, rpVars, intVars, slVars, apiVars, vwVars>>
OnlyIssue == UNCHANGED <<cfgVars, execVars, resVars, suiteVars, keyVars, tsVars, pdVars, rpVars, intVars, slVars, apiVars, vwVars>>
OnlyKey == UNCHANGED <<cfgVars, execVars, resVars, suiteVars, issueVars, tsVars, pdVars, rpVars, intVars, slVars, apiVars, vwVars>>
OnlyTestSuite == UNCHANGED <<cfgVars, execVars, resVars, suiteVars, issueVars, keyVars, pdVars, rpVars, intVars, slVars, apiVars, vwVars>>
\* an answer of the server to the test suite page may change the suite
OnlyTestSuiteAndServer == UNCHANGED <<cfgVars, execVars, resVars, issueVars, keyVars, pdVars, rpVars, intVars, slVars, apiVars, vwVars>>
OnlyProject == UNCHANGED <<cfgVars, execVars, resVars, suiteVars, issueVars, keyVars, tsVars, rpVars, intVars, slVars, apiVars, vwVars>>
\* an answer of the server to the project page may change the suite
OnlyProjectAndServer == UNCHANGED <<cfgVars, execVars, resVars, issueVars, keyVars, tsVars, rpVars, intVars, slVars, apiVars, vwVars>>
OnlyReports == UNCHANGED <<cfgVars, execVars, resVars, suiteVars, issueVars, keyVars, tsVars, pdVars, intVars, slVars, apiVars, vwVars>>
OnlyIntegration == UNCHANGED <<cfgVars, execVars, resVars, suiteVars, issueVars, keyVars, tsVars, pdVars, rpVars, slVars, apiVars, vwVars>>
\* a reducer of the tests slice writes state.tests.loading, which the project page reads
OnlyTests == UNCHANGED <<cfgVars, execVars, resVars, suiteVars, issueVars, keyVars, tsVars, rpVars, intVars, apiVars, vwVars>>
OnlyApi == UNCHANGED <<cfgVars, execVars, resVars, suiteVars, issueVars, keyVars, tsVars, pdVars, rpVars, intVars, slVars, vwVars>>
OnlyViews == UNCHANGED <<cfgVars, execVars, resVars, suiteVars, issueVars, keyVars, tsVars, pdVars, rpVars, intVars, slVars, apiVars>>

(***************************************************************************)
(* Bounds                                                                  *)
(***************************************************************************)
MaxLen == 2          \* longest text a user types into a field
NumCases == 3        \* test cases of the suite that is executed
MaxFetches == 2      \* polling requests in flight at a time
MaxCreated == 5      \* test cases generated for a suite in all
MaxPathLen == 3      \* longest endpoint path, in characters
MaxAssertions == 2   \* assertions of a test case in the edit dialog
MaxProjectsPending == 2   \* GET /reports/projects requests in flight at a time
MaxPending == 2      \* requests of one thunk of the tests slice in flight at a time
MaxInFlight == 2     \* requests of the api client in flight at a time
MaxQueryLen == 2     \* characters of the search text
MaxViewCases == 2    \* test cases of a suite on display in the two views

(***************************************************************************)
(* Text                                                                    *)
(***************************************************************************)
Empty == <<>>
NoError == <<>>      \* error: null of a slice of the store
UserChars == {"a"}
MaskChar == "*"      \* stands for the bullet of the masked placeholder

HasChar(s, c) == \E i \in 1..Len(s) : s[i] = c

\* the texts a user enters, up to the bound
Texts == UNION {[1..n -> UserChars] : n \in 0..MaxLen}

\* one keystroke on the text shown in a field: a character more or one less
Edits(shown) ==
    {Append(shown, c) : c \in UserChars}
        \cup (IF shown = Empty THEN {} ELSE {SubSeq(shown, 1, Len(shown) - 1)})

\* event.target.value of a change event of a field that shows `shown`:
\* the user replaces the text or edits it
InputValues(shown) ==
    Texts \cup {e \in Edits(shown) : Len(e) <= MaxLen \/ HasChar(e, MaskChar)}

\* String.prototype.trim
RECURSIVE TrimLeft(_)
TrimLeft(s) == IF s # Empty /\ Head(s) = " " THEN TrimLeft(Tail(s)) ELSE s
RECURSIVE TrimRight(_)
TrimRight(s) ==
    IF s # Empty /\ s[Len(s)] = " " THEN TrimRight(SubSeq(s, 1, Len(s) - 1)) ELSE s
Trim(s) == TrimRight(TrimLeft(s))

(***************************************************************************)
(* Test suite: generation and deletion of test cases                       *)
(* (specification sections 3, 4.3 and 6)                                   *)
(***************************************************************************)
Endpoints == {"A", "B"}
EndpointOrder == <<"A", "B">>

\* the number of cases the generator derives for an endpoint
CasesFor(e) == IF e = "A" THEN 2 ELSE 1

\* the endpoints of the cases to generate, endpoint by endpoint
RECURSIVE Expand(_)
Expand(eps) ==
    IF eps = <<>> THEN <<>>
    ELSE [i \in 1..CasesFor(Head(eps)) |-> Head(eps)] \o Expand(Tail(eps))

MaxIndex(cases) ==
    CHOOSE m \in {cases[i].index : i \in 1..Len(cases)} :
        \A i \in 1..Len(cases) : cases[i].index <= m

\* new indices continue from the suite's current maximum
NextIndex(cases) == IF cases = <<>> THEN 0 ELSE MaxIndex(cases) + 1

\* the cases generate() appends for the endpoints in E; uid names the case
NewCases(cases, E, made) ==
    LET flat == Expand(SelectSeq(EndpointOrder, LAMBDA e : e \in E))
    IN [i \in 1..Len(flat) |->
          [index |-> NextIndex(cases) + i - 1, endpoint |-> flat[i], uid |-> made + i]]

\* a deletion that renumbers the cases it keeps
SurvivorsRenumbered(cases, E) ==
    LET kept == SelectSeq(cases, LAMBDA c : c.endpoint \notin E)
    IN [i \in 1..Len(kept) |-> [kept[i] EXCEPT !.index = i - 1]]

\* the suite after deleting the cases of the endpoints in E
Survivors(cases, E) == SelectSeq(cases, LAMBDA c : c.endpoint \notin E)

\* no suite was generated yet
SuiteEmpty ==
    /\ suite = <<>>
    /\ createdIndex = <<>>

\* generate(project_id, selected_endpoints): appends to the suite
Generate ==
    /\ \E E \in (SUBSET Endpoints) \ {{}} :
         LET new == NewCases(suite, E, Len(createdIndex))
         IN /\ Len(createdIndex) + Len(new) <= MaxCreated
            /\ suite' = suite \o new
            /\ createdIndex' = createdIndex \o [i \in 1..Len(new) |-> new[i].index]
    /\ OnlySuite

\* delete_cases(test_suite_id, endpoints) for one or more endpoints
DeleteCases ==
    /\ \E E \in (SUBSET Endpoints) \ {{}} :
         /\ Survivors(suite, E) # suite
         /\ suite' = Survivors(suite, E)
    /\ UNCHANGED createdIndex
    /\ OnlySuite

\* delete_cases(test_suite_id) without endpoints: every case of the suite
DeleteAll ==
    /\ suite # <<>>
    /\ suite' = <<>>
    /\ UNCHANGED createdIndex
    /\ OnlySuite

(***************************************************************************)
(* Endpoint keys: 'METHOD:path', built and split by ProjectDetail.tsx and  *)
(* TestSuite.tsx                                                           *)
(***************************************************************************)
PathChars == {"/", "a", ":"}
Paths ==
    UNION {{q \in [1..n -> PathChars] : q[1] = "/"} : n \in 1..MaxPathLen}
Methods == {<<"g", "e", "t">>, <<"G", "E", "T">>}

UpperChar(c) ==
    IF c = "g" THEN "G" ELSE IF c = "e" THEN "E" ELSE IF c = "t" THEN "T"
    ELSE IF c = "a" THEN "A" ELSE c

\* String.prototype.toUpperCase
ToUpperCase(t) == [i \in 1..Len(t) |-> UpperChar(t[i])]

\* String.prototype.split(':'): the pieces between the colons
RECURSIVE Split(_)
Split(t) ==
    IF \A i \in 1..Len(t) : t[i] # ":" THEN <<t>>
    ELSE LET i == CHOOSE k \in 1..Len(t) :
                    t[k] = ":" /\ \A j \in 1..(k - 1) : t[j] # ":"
         IN <<SubSeq(t, 1, i - 1)>> \o Split(SubSeq(t, i + 1, Len(t)))

\* const [method, path] = key.split(':'): the first two pieces
Undefined == <<"undefined">>
First(parts) == parts[1]
Second(parts) == IF Len(parts) >= 2 THEN parts[2] ELSE Undefined

KeyEndpoints == [method : Methods, path : Paths]
NoEndpoint == [method |-> Empty, path |-> Empty]

\* getEndpointKey of the project page
GetEndpointKey(endpoint) ==
    ToUpperCase(endpoint.method) \o <<":">> \o endpoint.path

\* the endpoint of a generate request, read from a key of the selection
GenerateEndpoint(key) ==
    [method |-> First(Split(key)), path |-> Second(Split(key))]

\* the key of a group of test cases on the test suite page
CaseEndpointKey(testCase) ==
    testCase.method \o <<":">> \o testCase.endpoint

\* the endpoint of a delete request, read from the key of the group
DeleteEndpoint(endpointKey) ==
    [path |-> Second(Split(endpointKey)),
     method |-> ToUpperCase(First(Split(endpointKey)))]

KeyClosed ==
    /\ keySite = "none"
    /\ keyInput = NoEndpoint
    /\ keyText = Empty
    /\ keyOut = NoEndpoint

BuildKey ==
    /\ keySite # "none"
    /\ keyText = Empty
    /\ keyText' = IF keySite = "ProjectDetail" THEN GetEndpointKey(keyInput)
                  ELSE CaseEndpointKey([method |-> keyInput.method,
                                        endpoint |-> keyInput.path])
    /\ UNCHANGED <<keySite, keyInput, keyOut>>
    /\ OnlyKey

SplitKey ==
    /\ keyText # Empty
    /\ keyOut = NoEndpoint
    /\ keyOut' = IF keySite = "ProjectDetail" THEN GenerateEndpoint(keyText)
                 ELSE DeleteEndpoint(keyText)
    /\ UNCHANGED <<keySite, keyInput, keyText>>
    /\ OnlyKey

(***************************************************************************)
(* Test executor: the batch run of the selected cases of a suite           *)
(* (specification sections 3, 4.4, 5 and 7)                                *)
(***************************************************************************)
CaseIndices == 0..(NumCases - 1)

\* a selection: distinct indices of the suite in the order they are scheduled
Selections ==
    UNION {{q \in [1..n -> CaseIndices] : \A i, j \in 1..n : i # j => q[i] # q[j]}
           : n \in 0..NumCases}

\* the selections in the default order, ascending index
AscendingSelections ==
    {q \in Selections : \A i, j \in 1..Len(q) : i < j => q[i] < q[j]}

\* what happens to the request of one case
TransportFailures == {"timeout", "connection"}
Outcomes == {"pass", "assert_fail"} \cup TransportFailures

\* TestResult.status: error if the request could not be completed, failed if
\* an assertion is false or the status code is not an expected one
ResultStatus(o) ==
    IF o \in TransportFailures THEN "error"
    ELSE IF o = "assert_fail" THEN "failed" ELSE "passed"

EndpointOf(idx) == <<"e", idx>>

TestResult(idx, o) ==
    [test_case_index |-> idx,
     endpoint |-> EndpointOf(idx),
     method |-> "GET",
     status |-> ResultStatus(o),
     actual_status |-> IF o \in TransportFailures THEN 0
                       ELSE IF o = "assert_fail" THEN 500 ELSE 200,
     error |-> IF o \in TransportFailures THEN o ELSE ""]

BaseUrl == <<"b">>

StartSummary(sel) ==
    [total |-> Len(sel), passed |-> 0, failed |-> 0, errors |-> 0, progress |-> 0,
     base_url |-> BaseUrl]

\* the counters when a result with status error is not counted
CountResultNoErrors(sm, r) ==
    [sm EXCEPT !.passed = IF r.status = "passed" THEN @ + 1 ELSE @,
               !.failed = IF r.status = "failed" THEN @ + 1 ELSE @,
               !.progress = @ + 1]

\* the running counters after one more result
CountResult(sm, r) ==
    [sm EXCEPT !.passed = IF r.status = "passed" THEN @ + 1 ELSE @,
               !.failed = IF r.status = "failed" THEN @ + 1 ELSE @,
               !.errors = IF r.status = "error" THEN @ + 1 ELSE @,
               !.progress = @ + 1]

\* no execution was started
ExecIdle ==
    /\ execStatus = "none"
    /\ selected = <<>>
    /\ results = <<>>
    /\ summary = StartSummary(<<>>)
    /\ outcomes = <<>>

\* execute(test_suite_id, test_indices): the execution exists and is running
ExecStarted(sels) ==
    /\ execStatus = "running"
    /\ selected \in sels
    /\ results = <<>>
    /\ summary = StartSummary(selected)
    /\ outcomes = <<>>

\* the batch cannot start at all: failed, with no results
FatalError ==
    /\ execStatus = "running"
    /\ results = <<>>
    /\ execStatus' = "failed"
    /\ UNCHANGED <<selected, results, summary, outcomes>>
    /\ OnlyExec

\* a run in which a transport failure ends the batch
RunCaseAbortOnError ==
    /\ execStatus = "running"
    /\ Len(results) < Len(selected)
    /\ \E o \in Outcomes :
         LET r == TestResult(selected[Len(results) + 1], o)
         IN /\ results' = Append(results, r)
            /\ summary' = CountResult(summary, r)
            /\ outcomes' = Append(outcomes, o)
            /\ execStatus' = IF o \in TransportFailures THEN "failed" ELSE execStatus
    /\ UNCHANGED selected
    /\ OnlyExec

\* a run that puts the newest result first
RunCaseNewestFirst ==
    /\ execStatus = "running"
    /\ Len(results) < Len(selected)
    /\ \E o \in Outcomes :
         LET r == TestResult(selected[Len(results) + 1], o)
         IN /\ results' = <<r>> \o results
            /\ summary' = CountResult(summary, r)
            /\ outcomes' = Append(outcomes, o)
    /\ UNCHANGED <<execStatus, selected>>
    /\ OnlyExec

\* the next scheduled case is run: whatever happens to its request, its
\* result is appended and counted, and the batch goes on
RunCase ==
    /\ execStatus = "running"
    /\ Len(results) < Len(selected)
    /\ \E o \in Outcomes :
         LET r == TestResult(selected[Len(results) + 1], o)
         IN /\ results' = Append(results, r)
            /\ summary' = CountResult(summary, r)
            /\ outcomes' = Append(outcomes, o)
    /\ UNCHANGED <<execStatus, selected>>
    /\ OnlyExec

\* completion that is only recorded while a subscriber is on the stream
CompleteWhileStreamed ==
    /\ execStatus = "running"
    /\ Len(results) = Len(selected)
    /\ sse = "open"
    /\ execStatus' = "completed"
    /\ UNCHANGED <<selected, results, summary, outcomes>>
    /\ OnlyExec

\* all selected cases have finished
Complete ==
    /\ execStatus = "running"
    /\ Len(results) = Len(selected)
    /\ execStatus' = "completed"
    /\ UNCHANGED <<selected, results, summary, outcomes>>
    /\ OnlyExec

ExecStep == FatalError \/ RunCase \/ Complete

(***************************************************************************)
(* Results page: Results.tsx                                               *)
(***************************************************************************)
\* useState<any>(null)
NullExecution ==
    [present |-> FALSE, status |-> "", results |-> <<>>, summary |-> StartSummary(<<>>)]

\* the TestExecution as the server returns it, by GET and on the stream
Snapshot ==
    [present |-> TRUE, status |-> execStatus, results |-> results, summary |-> summary]

\* the request/response entry the page derives from one result
RequestEntry(data, result) ==
    [url |-> data.summary.base_url \o result.endpoint,
     method |-> result.method,
     response_status |-> result.actual_status]

View == [execution |-> execution, loading |-> loading, requests |-> requests]

\* eventSource.onmessage on a message with payload `data`
ViewAfterMessage(v, data) ==
    [execution |-> data,
     loading |-> FALSE,
     requests |-> IF Len(data.results) > 0
                  THEN [i \in 1..Len(data.results) |-> RequestEntry(data, data.results[i])]
                  ELSE v.requests]

\* fetchExecution without setLoading(false)
ViewAfterFetchKeepsLoading(v, data) ==
    [execution |-> data,
     loading |-> v.loading,
     requests |-> IF Len(data.results) > 0
                  THEN [i \in 1..Len(data.results) |-> RequestEntry(data, data.results[i])]
                  ELSE v.requests]

\* fetchExecution after a successful GET that answered `data`
ViewAfterFetch(v, data) ==
    LET newRequests ==
            [i \in 1..Len(data.results) |-> RequestEntry(data, data.results[i])]
    IN [execution |-> data,
        loading |-> FALSE,
        requests |-> IF Len(data.results) > 0 THEN newRequests ELSE v.requests]

SetView(v) ==
    /\ execution' = v.execution
    /\ loading' = v.loading
    /\ requests' = v.requests

\* the Results page is not open
ResultsClosed ==
    /\ resMounted = FALSE
    /\ execution = NullExecution
    /\ loading = TRUE
    /\ requests = <<>>
    /\ sse = "none"
    /\ polling = FALSE
    /\ fetching = 0
    /\ closureExecution = NullExecution
    /\ sources = {}

\* the page after its first render and effect: setupSSE has opened the stream;
\* its handlers close over the `execution` of this render
ResultsOpened ==
    /\ resMounted = TRUE
    /\ execution = NullExecution
    /\ loading = TRUE
    /\ requests = <<>>
    /\ sse = "open"
    /\ polling = FALSE
    /\ fetching = 0
    /\ closureExecution = execution
    /\ sources = {}

SseMessage ==
    /\ resMounted
    /\ sse = "open"
    /\ SetView(ViewAfterMessage(View, Snapshot))
    /\ sources' = sources \cup {"sse"}
    /\ UNCHANGED <<resMounted, sse, polling, fetching, closureExecution>>
    /\ OnlyResults

\* eventSource.onerror: close the stream, then startPolling: one fetch at
\* once and the interval
SseError ==
    /\ resMounted
    /\ sse = "open"
    /\ fetching < MaxFetches
    /\ sse' = "failed"
    /\ fetching' = fetching + 1
    /\ polling' = TRUE
    /\ UNCHANGED <<resMounted, execution, loading, requests, closureExecution, sources>>
    /\ OnlyResults

\* the interval callback: it reads the execution of its closure
IntervalTick ==
    /\ polling
    /\ IF closureExecution.present /\ closureExecution.status = "running"
       THEN /\ fetching < MaxFetches
            /\ fetching' = fetching + 1
            /\ UNCHANGED polling
       ELSE /\ polling' = FALSE
            /\ UNCHANGED fetching
    /\ UNCHANGED <<resMounted, execution, loading, requests, sse, closureExecution,
                   sources>>
    /\ OnlyResults

FetchFulfilled ==
    /\ fetching > 0
    /\ fetching' = fetching - 1
    /\ SetView(ViewAfterFetch(View, Snapshot))
    /\ sources' = sources \cup {"poll"}
    /\ UNCHANGED <<resMounted, sse, polling, closureExecution>>
    /\ OnlyResults

FetchRejected ==
    /\ fetching > 0
    /\ fetching' = fetching - 1
    /\ loading' = FALSE
    /\ UNCHANGED <<resMounted, execution, requests, sse, polling, closureExecution,
                   sources>>
    /\ OnlyResults

\* the cleanup of the effect closes the stream
ResultsUnmount ==
    /\ resMounted
    /\ resMounted' = FALSE
    /\ sse' = IF sse = "open" THEN "closed" ELSE sse
    /\ UNCHANGED <<execution, loading, requests, polling, fetching, closureExecution,
                   sources>>
    /\ OnlyResults

(***************************************************************************)
(* Results page: the issue dialog                                          *)
(***************************************************************************)
NoResult == TestResult(-1, "pass")
NoIssueRequest == [test_index |-> -1, result |-> NoResult]

IssueClosed ==
    /\ issueDialogOpen = FALSE
    /\ selectedTestIndex = -1
    /\ issueFor = NoResult
    /\ issueRequest = NoIssueRequest

\* handleOpenIssueDialog(index) of the button in the row of a result that
\* did not pass; index is the position of the row in execution.results
HandleOpenIssueDialog ==
    /\ resMounted
    /\ ~loading
    /\ execution.present
    /\ ~issueDialogOpen
    /\ \E testIndex \in 0..(Len(execution.results) - 1) :
         /\ execution.results[testIndex + 1].status # "passed"
         /\ selectedTestIndex' = testIndex
         /\ issueFor' = execution.results[testIndex + 1]
    /\ issueDialogOpen' = TRUE
    /\ UNCHANGED issueRequest
    /\ OnlyIssue

\* handleCreateIssue: the request names the result by its position
HandleCreateIssue ==
    /\ resMounted
    /\ issueDialogOpen
    /\ issueRequest = NoIssueRequest
    /\ execution.present
    /\ selectedTestIndex # -1
    /\ issueRequest' = [test_index |-> selectedTestIndex, result |-> issueFor]
    /\ UNCHANGED <<issueDialogOpen, selectedTestIndex, issueFor>>
    /\ OnlyIssue

\* the answer to the issue request, success or failure
IssueSettled ==
    /\ issueRequest # NoIssueRequest
    /\ issueRequest' = NoIssueRequest
    /\ UNCHANGED <<issueDialogOpen, selectedTestIndex, issueFor>>
    /\ OnlyIssue

CloseIssueDialog ==
    /\ resMounted
    /\ issueDialogOpen
    /\ issueDialogOpen' = FALSE
    /\ UNCHANGED <<selectedTestIndex, issueFor, issueRequest>>
    /\ OnlyIssue

(***************************************************************************)
(* Test suite page: TestSuite.tsx, data                                    *)
(***************************************************************************)
\* an optional value: a field that may be absent (undefined)
None == <<>>
Some(x) == <<x>>

\* JSON values and their texts
EmptyObject == [keys |-> {}]
ObjectA == [keys |-> {"a"}]
JsonTexts == {Empty, <<"{">>, <<"{", "a", "}">>}

\* JSON.stringify
Stringify(v) == IF v.keys = {} THEN <<"{", "}">> ELSE <<"{", "a", "}">>

\* JSON.parse: the value, or None where it throws
Parse(t) ==
    IF t = <<"{", "}">> THEN Some(EmptyObject)
    ELSE IF t = <<"{", "a", "}">> THEN Some(ObjectA)
    ELSE None

\* editedX ? JSON.parse(editedX) : undefined, undefined too when it throws
ParseEdited(t) == IF t = Empty THEN None ELSE Parse(t)

ExpectedValues == {200, 404}
Assertion(v) == [type |-> "status_code", condition |-> "equals", expected_value |-> v]
DefaultAssertion == Assertion(200)
NoAssertion == [type |-> "", condition |-> "", expected_value |-> 0]
StoredAssertionLists == {<<>>, <<Assertion(404)>>}

\* the endpoints of the project
EndpointPath(e) == IF e = "A" THEN <<"/", "a">> ELSE <<"/", "b">>
EndpointMethod(e) == <<"G", "E", "T">>

\* a test case as GET /generate/{id}/cases returns it
TestCaseOf(c) ==
    [index |-> c.index,
     endpoint |-> EndpointPath(c.endpoint),
     method |-> EndpointMethod(c.endpoint),
     payload |-> IF c.endpoint = "A" THEN Some(ObjectA) ELSE None,
     expected_status |-> <<200>>,
     assertions |-> storedAssertions[c.uid]]

CasesResponse == [i \in 1..Len(suite) |-> TestCaseOf(suite[i])]

NoTestCase ==
    [index |-> -1, endpoint |-> Empty, method |-> Empty, payload |-> None,
     expected_status |-> <<>>, assertions |-> <<>>]

NoTestSuite == [present |-> FALSE, all_tests |-> <<>>]

\* the indices of the test cases of a list
IndicesOf(tests) == [i \in 1..Len(tests) |-> tests[i].index]

\* the loaded test case with an index
LoadedCase(tests, index) ==
    IF \E i \in 1..Len(tests) : tests[i].index = index
    THEN tests[CHOOSE i \in 1..Len(tests) : tests[i].index = index]
    ELSE NoTestCase

\* a Set of JavaScript keeps its elements in insertion order
SetHas(q, x) == \E i \in 1..Len(q) : q[i] = x
SetDelete(q, x) == SelectSeq(q, LAMBDA y : y # x)
SetAdd(q, x) == IF SetHas(q, x) THEN q ELSE Append(q, x)

RECURSIVE SetAddAll(_, _)
SetAddAll(q, xs) ==
    IF xs = <<>> THEN q ELSE SetAddAll(SetAdd(q, Head(xs)), Tail(xs))

RECURSIVE SetDeleteAll(_, _)
SetDeleteAll(q, xs) ==
    IF xs = <<>> THEN q ELSE SetDeleteAll(SetDelete(q, Head(xs)), Tail(xs))

\* new Set(list)
NewSet(xs) == SetAddAll(<<>>, xs)

\* the keys of the groups of testCasesByEndpoint, and the cases of a group
EndpointKeys(tests) == {CaseEndpointKey(tests[i]) : i \in 1..Len(tests)}
GroupOf(tests, key) == SelectSeq(tests, LAMBDA t : CaseEndpointKey(t) = key)

\* delete_cases: the endpoints of the project that a request names
Named(endpoints) ==
    {e \in Endpoints :
       \E i \in 1..Len(endpoints) :
          endpoints[i] = [path |-> EndpointPath(e), method |-> EndpointMethod(e)]}

NoExecuteRequest == [sent |-> FALSE, test_indices |-> <<>>]
NoDeleteRequest ==
    [phase |-> "none", by |-> "", confirmed |-> FALSE, endpoints |-> None]
NoSingleRequest ==
    [sent |-> FALSE, test_case |-> NoTestCase, modified_payload |-> None,
     modified_headers |-> None, modified_assertions |-> None,
     useEdited |-> FALSE, dialogAssertions |-> <<>>]

selectionVars == <<tsMounted, testSuite, tsLoading, selectedTests, executing,
                   executeRequest, deletingEndpoint, deletingAll, deleteRequest>>
editVars == <<editDialogOpen, editingTestCase, editedPayload, editedHeaders,
              editedAssertions, editedShared, assertionDialogOpen,
              editingAssertion, assertionIndex, runningTest, singleRequest>>

EditClosed ==
    /\ editDialogOpen = FALSE
    /\ editingTestCase = NoTestCase
    /\ editedPayload = Empty
    /\ editedHeaders = Empty
    /\ editedAssertions = <<>>
    /\ editedShared = FALSE
    /\ assertionDialogOpen = FALSE
    /\ editingAssertion = NoAssertion
    /\ assertionIndex = -1
    /\ runningTest = -1
    /\ singleRequest = NoSingleRequest

TestSuiteClosed ==
    /\ storedAssertions = <<>>
    /\ tsMounted = FALSE
    /\ testSuite = NoTestSuite
    /\ tsLoading = FALSE
    /\ selectedTests = <<>>
    /\ executing = FALSE
    /\ executeRequest = NoExecuteRequest
    /\ deletingEndpoint = Empty
    /\ deletingAll = FALSE
    /\ deleteRequest = NoDeleteRequest
    /\ EditClosed

\* the page after its first fetchTestCases, on a suite generated for some
\* endpoints of the project: every test case is selected
TestSuiteLoaded ==
    /\ \E E \in (SUBSET Endpoints) \ {{}} :
         /\ suite = NewCases(<<>>, E, 0)
         /\ createdIndex = IndicesOf(suite)
    /\ storedAssertions \in [1..Len(suite) -> StoredAssertionLists]
    /\ tsMounted = TRUE
    /\ testSuite = [present |-> TRUE, all_tests |-> CasesResponse]
    /\ tsLoading = FALSE
    /\ selectedTests = NewSet(IndicesOf(CasesResponse))
    /\ executing = FALSE
    /\ executeRequest = NoExecuteRequest
    /\ deletingEndpoint = Empty
    /\ deletingAll = FALSE
    /\ deleteRequest = NoDeleteRequest
    /\ EditClosed

\* the list of test cases is on screen and no dialog is over it
ListShown ==
    /\ tsMounted
    /\ ~tsLoading
    /\ testSuite.present
    /\ ~editDialogOpen

(***************************************************************************)
(* Test suite page: selection, Execute Selected, Delete                    *)
(***************************************************************************)
OnlySelection == UNCHANGED <<storedAssertions, editVars>> /\ OnlyTestSuite

HandleSelectTest ==
    /\ ListShown
    /\ \E t \in 1..Len(testSuite.all_tests) :
         LET index == testSuite.all_tests[t].index
         IN selectedTests' = IF SetHas(selectedTests, index)
                             THEN SetDelete(selectedTests, index)
                             ELSE SetAdd(selectedTests, index)
    /\ UNCHANGED <<tsMounted, testSuite, tsLoading, executing, executeRequest,
                   deletingEndpoint, deletingAll, deleteRequest>>
    /\ OnlySelection

HandleSelectAll ==
    /\ ListShown
    /\ selectedTests' = NewSet(IndicesOf(testSuite.all_tests))
    /\ UNCHANGED <<tsMounted, testSuite, tsLoading, executing, executeRequest,
                   deletingEndpoint, deletingAll, deleteRequest>>
    /\ OnlySelection

HandleDeselectAll ==
    /\ ListShown
    /\ selectedTests' = <<>>
    /\ UNCHANGED <<tsMounted, testSuite, tsLoading, executing, executeRequest,
                   deletingEndpoint, deletingAll, deleteRequest>>
    /\ OnlySelection

\* the checkbox of a group: deselects the group if all of it is selected
HandleSelectEndpoint ==
    /\ ListShown
    /\ \E endpointKey \in EndpointKeys(testSuite.all_tests) :
         LET allIndices == IndicesOf(GroupOf(testSuite.all_tests, endpointKey))
             allSelected ==
                 \A i \in 1..Len(allIndices) : SetHas(selectedTests, allIndices[i])
         IN selectedTests' = IF allSelected
                             THEN SetDeleteAll(selectedTests, allIndices)
                             ELSE SetAddAll(selectedTests, allIndices)
    /\ UNCHANGED <<tsMounted, testSuite, tsLoading, executing, executeRequest,
                   deletingEndpoint, deletingAll, deleteRequest>>
    /\ OnlySelection

\* an Execute Selected that asks for every loaded test case
HandleExecuteSelectedAll ==
    /\ ListShown
    /\ ~executing
    /\ selectedTests # <<>>
    /\ executing' = TRUE
    /\ executeRequest' =
         [sent |-> TRUE, test_indices |-> IndicesOf(testSuite.all_tests)]
    /\ UNCHANGED <<tsMounted, testSuite, tsLoading, selectedTests,
                   deletingEndpoint, deletingAll, deleteRequest>>
    /\ OnlySelection

\* the button is disabled while executing or with nothing selected, and the
\* handler returns without a request if nothing is selected
HandleExecuteSelected ==
    /\ ListShown
    /\ ~executing
    /\ selectedTests # <<>>
    /\ executing' = TRUE
    /\ executeRequest' = [sent |-> TRUE, test_indices |-> selectedTests]
    /\ UNCHANGED <<tsMounted, testSuite, tsLoading, selectedTests,
                   deletingEndpoint, deletingAll, deleteRequest>>
    /\ OnlySelection

\* the answer to the execute request: with an execution id the page is left
\* for the results page, otherwise the failure is reported
ExecuteSettled ==
    /\ executeRequest.sent
    /\ executeRequest' = NoExecuteRequest
    /\ executing' = FALSE
    /\ \E started \in BOOLEAN : tsMounted' = (tsMounted /\ ~started)
    /\ UNCHANGED <<testSuite, tsLoading, selectedTests, deletingEndpoint,
                   deletingAll, deleteRequest>>
    /\ OnlySelection

\* the delete button of a group; one delete handler runs at a time
HandleDeleteEndpoint ==
    /\ ListShown
    /\ deleteRequest.phase = "none"
    /\ \E endpointKey \in EndpointKeys(testSuite.all_tests), ok \in BOOLEAN :
         IF ok
         THEN /\ deletingEndpoint' = endpointKey
              /\ deleteRequest' =
                   [phase |-> "delete", by |-> "endpoint", confirmed |-> ok,
                    endpoints |-> Some(<<DeleteEndpoint(endpointKey)>>)]
         ELSE UNCHANGED <<deletingEndpoint, deleteRequest>>
    /\ UNCHANGED <<tsMounted, testSuite, tsLoading, selectedTests, executing,
                   executeRequest, deletingAll>>
    /\ OnlySelection

\* a Delete All that does not wait for the answer of the user
HandleDeleteAllUnasked ==
    /\ ListShown
    /\ deleteRequest.phase = "none"
    /\ ~deletingAll
    /\ Len(testSuite.all_tests) # 0
    /\ \E ok \in BOOLEAN :
         /\ deletingAll' = TRUE
         /\ deleteRequest' =
              [phase |-> "delete", by |-> "all", confirmed |-> ok,
               endpoints |-> None]
    /\ UNCHANGED <<tsMounted, testSuite, tsLoading, selectedTests, executing,
                   executeRequest, deletingEndpoint>>
    /\ OnlySelection

\* the button is disabled while deleting all or on an empty suite
HandleDeleteAll ==
    /\ ListShown
    /\ deleteRequest.phase = "none"
    /\ ~deletingAll
    /\ Len(testSuite.all_tests) # 0
    /\ \E ok \in BOOLEAN :
         IF ok
         THEN /\ deletingAll' = TRUE
              /\ deleteRequest' =
                   [phase |-> "delete", by |-> "all", confirmed |-> ok,
                    endpoints |-> None]
         ELSE UNCHANGED <<deletingAll, deleteRequest>>
    /\ UNCHANGED <<tsMounted, testSuite, tsLoading, selectedTests, executing,
                   executeRequest, deletingEndpoint>>
    /\ OnlySelection

\* delete_cases on the server: without endpoints every case, otherwise the
\* cases of the endpoints the request names
Deleted(req) ==
    IF req.endpoints = None THEN <<>>
    ELSE Survivors(suite, Named(req.endpoints[1]))

\* the delete request succeeds and the handler goes on to fetchTestCases
DeleteFulfilled ==
    /\ deleteRequest.phase = "delete"
    /\ suite' = Deleted(deleteRequest)
    /\ deleteRequest' = [deleteRequest EXCEPT !.phase = "reload"]
    /\ tsLoading' = TRUE
    /\ UNCHANGED <<tsMounted, testSuite, selectedTests, executing,
                   executeRequest, deletingEndpoint, deletingAll>>
    /\ UNCHANGED createdIndex
    /\ UNCHANGED <<storedAssertions, editVars>>
    /\ OnlyTestSuiteAndServer

\* the delete request fails, before or after the server has acted on it;
\* the failure is reported and the flags are reset
DeleteRejected ==
    /\ deleteRequest.phase = "delete"
    /\ \/ UNCHANGED suite
       \/ suite' = Deleted(deleteRequest)
    /\ deleteRequest' = NoDeleteRequest
    /\ deletingEndpoint' = Empty
    /\ deletingAll' = FALSE
    /\ UNCHANGED <<tsMounted, testSuite, tsLoading, selectedTests, executing,
                   executeRequest>>
    /\ UNCHANGED createdIndex
    /\ UNCHANGED <<storedAssertions, editVars>>
    /\ OnlyTestSuiteAndServer

\* fetchTestCases of the delete handler is answered: the suite is replaced,
\* and every test case is selected if there is one
ReloadFulfilled ==
    /\ deleteRequest.phase = "reload"
    /\ testSuite' = [present |-> TRUE, all_tests |-> CasesResponse]
    /\ selectedTests' = IF Len(CasesResponse) > 0
                        THEN NewSet(IndicesOf(CasesResponse))
                        ELSE selectedTests
    /\ tsLoading' = FALSE
    /\ deleteRequest' = NoDeleteRequest
    /\ deletingEndpoint' = Empty
    /\ deletingAll' = FALSE
    /\ UNCHANGED <<tsMounted, executing, executeRequest>>
    /\ OnlySelection

\* fetchTestCases fails: it only logs the failure
ReloadRejected ==
    /\ deleteRequest.phase = "reload"
    /\ tsLoading' = FALSE
    /\ deleteRequest' = NoDeleteRequest
    /\ deletingEndpoint' = Empty
    /\ deletingAll' = FALSE
    /\ UNCHANGED <<tsMounted, testSuite, selectedTests, executing,
                   executeRequest>>
    /\ OnlySelection

(***************************************************************************)
(* Test suite page: the edit dialog and the run of a single test           *)
(***************************************************************************)
OnlyEdit == UNCHANGED <<storedAssertions, selectionVars>> /\ OnlyTestSuite

\* the edit dialog is on screen and the assertion dialog is not over it;
\* the user waits for the answer of a run before going on
EditShown ==
    /\ tsMounted
    /\ ~tsLoading
    /\ editDialogOpen
    /\ ~assertionDialogOpen
    /\ ~singleRequest.sent

\* the assertion dialog is on screen
AssertionShown ==
    /\ tsMounted
    /\ ~tsLoading
    /\ assertionDialogOpen
    /\ ~singleRequest.sent

\* the Edit button of a test case: the dialog starts from the payload, the
\* headers and the array of assertions of the test case
HandleEditTest ==
    /\ ListShown
    /\ ~singleRequest.sent
    /\ \E t \in 1..Len(testSuite.all_tests) :
         LET testCase == testSuite.all_tests[t]
         IN /\ editingTestCase' = testCase
            /\ editedPayload' = Stringify(IF testCase.payload = None
                                          THEN EmptyObject
                                          ELSE testCase.payload[1])
            /\ editedHeaders' = Stringify(EmptyObject)
            /\ editedAssertions' = testCase.assertions
    /\ editedShared' = TRUE
    /\ editDialogOpen' = TRUE
    /\ UNCHANGED <<assertionDialogOpen, editingAssertion, assertionIndex,
                   runningTest, singleRequest>>
    /\ OnlyEdit

HandleCloseEditDialog ==
    /\ EditShown
    /\ editDialogOpen' = FALSE
    /\ editingTestCase' = NoTestCase
    /\ editedPayload' = Empty
    /\ editedHeaders' = Empty
    /\ editedAssertions' = <<>>
    /\ editedShared' = FALSE
    /\ UNCHANGED <<assertionDialogOpen, editingAssertion, assertionIndex,
                   runningTest, singleRequest>>
    /\ OnlyEdit

\* typing into the payload field
EditPayload ==
    /\ EditShown
    /\ \E t \in JsonTexts : editedPayload' = t
    /\ editedPayload' # editedPayload
    /\ UNCHANGED <<editDialogOpen, editingTestCase, editedHeaders,
                   editedAssertions, editedShared, assertionDialogOpen,
                   editingAssertion, assertionIndex, runningTest, singleRequest>>
    /\ OnlyEdit

\* typing into the headers field
EditHeaders ==
    /\ EditShown
    /\ \E t \in JsonTexts : editedHeaders' = t
    /\ editedHeaders' # editedHeaders
    /\ UNCHANGED <<editDialogOpen, editingTestCase, editedPayload,
                   editedAssertions, editedShared, assertionDialogOpen,
                   editingAssertion, assertionIndex, runningTest, singleRequest>>
    /\ OnlyEdit

HandleAddAssertion ==
    /\ EditShown
    /\ Len(editedAssertions) < MaxAssertions
    /\ editingAssertion' = DefaultAssertion
    /\ assertionIndex' = -1
    /\ assertionDialogOpen' = TRUE
    /\ UNCHANGED <<editDialogOpen, editingTestCase, editedPayload, editedHeaders,
                   editedAssertions, editedShared, runningTest, singleRequest>>
    /\ OnlyEdit

\* the assertion dialog works on a copy of the assertion
HandleEditAssertion ==
    /\ EditShown
    /\ \E index \in 0..(Len(editedAssertions) - 1) :
         /\ editingAssertion' = editedAssertions[index + 1]
         /\ assertionIndex' = index
    /\ assertionDialogOpen' = TRUE
    /\ UNCHANGED <<editDialogOpen, editingTestCase, editedPayload, editedHeaders,
                   editedAssertions, editedShared, runningTest, singleRequest>>
    /\ OnlyEdit

\* the Expected Value field of the assertion dialog
ChangeAssertion ==
    /\ AssertionShown
    /\ \E v \in ExpectedValues :
         editingAssertion' = [editingAssertion EXCEPT !.expected_value = v]
    /\ editingAssertion' # editingAssertion
    /\ UNCHANGED <<editDialogOpen, editingTestCase, editedPayload, editedHeaders,
                   editedAssertions, editedShared, assertionDialogOpen,
                   assertionIndex, runningTest, singleRequest>>
    /\ OnlyEdit

\* Cancel or onClose of the assertion dialog
CancelAssertion ==
    /\ AssertionShown
    /\ assertionDialogOpen' = FALSE
    /\ editingAssertion' = NoAssertion
    /\ assertionIndex' = -1
    /\ UNCHANGED <<editDialogOpen, editingTestCase, editedPayload, editedHeaders,
                   editedAssertions, editedShared, runningTest, singleRequest>>
    /\ OnlyEdit

\* the list of assertions with the saved one put in or appended
Saved(assertions) ==
    IF assertionIndex >= 0
    THEN [assertions EXCEPT ![assertionIndex + 1] = editingAssertion]
    ELSE Append(assertions, editingAssertion)

\* the loaded suite after the array of assertions of a test case was changed
\* in place
WithAssertions(index, assertions) ==
    [testSuite EXCEPT !.all_tests =
        [t \in 1..Len(testSuite.all_tests) |->
            IF testSuite.all_tests[t].index = index
            THEN [testSuite.all_tests[t] EXCEPT !.assertions = assertions]
            ELSE testSuite.all_tests[t]]]

\* a Save that writes into the array it was given
HandleSaveAssertionInPlace ==
    /\ AssertionShown
    /\ editingAssertion # NoAssertion
    /\ editedAssertions' = Saved(editedAssertions)
    /\ IF editedShared
       THEN /\ testSuite' = WithAssertions(editingTestCase.index, editedAssertions')
            /\ editingTestCase' =
                 [editingTestCase EXCEPT !.assertions = editedAssertions']
       ELSE UNCHANGED <<testSuite, editingTestCase>>
    /\ assertionDialogOpen' = FALSE
    /\ editingAssertion' = NoAssertion
    /\ assertionIndex' = -1
    /\ UNCHANGED <<editDialogOpen, editedPayload, editedHeaders, editedShared,
                   runningTest, singleRequest>>
    /\ UNCHANGED <<storedAssertions, tsMounted, tsLoading, selectedTests,
                   executing, executeRequest, deletingEndpoint, deletingAll,
                   deleteRequest>>
    /\ OnlyTestSuite

\* Save of the assertion dialog: a new array with the assertion put in
HandleSaveAssertion ==
    /\ AssertionShown
    /\ editingAssertion # NoAssertion
    /\ editedAssertions' = Saved(editedAssertions)
    /\ editedShared' = FALSE
    /\ assertionDialogOpen' = FALSE
    /\ editingAssertion' = NoAssertion
    /\ assertionIndex' = -1
    /\ UNCHANGED <<editDialogOpen, editingTestCase, editedPayload, editedHeaders,
                   runningTest, singleRequest>>
    /\ OnlyEdit

\* the delete button of an assertion: a new array without it
HandleDeleteAssertion ==
    /\ EditShown
    /\ \E index \in 0..(Len(editedAssertions) - 1) :
         editedAssertions' =
           SubSeq(editedAssertions, 1, index)
             \o SubSeq(editedAssertions, index + 2, Len(editedAssertions))
    /\ editedShared' = FALSE
    /\ UNCHANGED <<editDialogOpen, editingTestCase, editedPayload, editedHeaders,
                   assertionDialogOpen, editingAssertion, assertionIndex,
                   runningTest, singleRequest>>
    /\ OnlyEdit

\* the assertions of the request of a run with changes
ModifiedAssertions(testCase) ==
    IF Len(editedAssertions) > 0 THEN Some(editedAssertions)
    ELSE IF Len(testCase.assertions) > 0 THEN Some(testCase.assertions)
    ELSE None

\* the assertions of the request of a run from the list
OriginalAssertions(testCase) ==
    IF Len(testCase.assertions) > 0 THEN Some(testCase.assertions) ELSE None

\* the request of handleRunSingleTest(testCase, useEdited)
SingleRequest(testCase, useEdited) ==
    LET changes == useEdited /\ editingTestCase.index = testCase.index
    IN [sent |-> TRUE,
        test_case |-> testCase,
        modified_payload |-> IF changes THEN ParseEdited(editedPayload) ELSE None,
        modified_headers |-> IF changes THEN ParseEdited(editedHeaders) ELSE None,
        modified_assertions |-> IF changes THEN ModifiedAssertions(testCase)
                                ELSE OriginalAssertions(testCase),
        useEdited |-> useEdited,
        dialogAssertions |-> editedAssertions]

\* Run of a test case of the list, or Run with Changes of the edit dialog;
\* one run at a time
HandleRunSingleTest ==
    /\ ~singleRequest.sent
    /\ \/ /\ ListShown
          /\ \E t \in 1..Len(testSuite.all_tests) :
               /\ runningTest' = testSuite.all_tests[t].index
               /\ singleRequest' = SingleRequest(testSuite.all_tests[t], FALSE)
       \/ /\ EditShown
          /\ editingTestCase # NoTestCase
          /\ runningTest' = editingTestCase.index
          /\ singleRequest' = SingleRequest(editingTestCase, TRUE)
    /\ UNCHANGED <<editDialogOpen, editingTestCase, editedPayload, editedHeaders,
                   editedAssertions, editedShared, assertionDialogOpen,
                   editingAssertion, assertionIndex>>
    /\ OnlyEdit

\* the answer to the run: on success the result is shown and a run with
\* changes closes the edit dialog; a failure is only reported
SingleSettled ==
    /\ singleRequest.sent
    /\ singleRequest' = NoSingleRequest
    /\ runningTest' = -1
    /\ \E ok \in BOOLEAN :
         IF ok /\ singleRequest.useEdited
         THEN /\ editDialogOpen' = FALSE
              /\ editingTestCase' = NoTestCase
              /\ editedPayload' = Empty
              /\ editedHeaders' = Empty
              /\ editedAssertions' = <<>>
              /\ editedShared' = FALSE
         ELSE UNCHANGED <<editDialogOpen, editingTestCase, editedPayload,
                          editedHeaders, editedAssertions, editedShared>>
    /\ UNCHANGED <<assertionDialogOpen, editingAssertion, assertionIndex>>
    /\ OnlyEdit

(***************************************************************************)
(* Project page: ProjectDetail.tsx, selection of endpoints and Generate    *)
(***************************************************************************)
\* currentProject.endpoints, as the specification of the API writes them
ProjectEndpoints ==
    [i \in 1..Len(EndpointOrder) |->
        [method |-> <<"g", "e", "t">>, path |-> EndpointPath(EndpointOrder[i])]]

\* the endpoints that have test cases in the suite
GeneratedOnServer == {suite[i].endpoint : i \in 1..Len(suite)}

\* the keys the page makes of the generated-endpoints response
GeneratedKeys ==
    {ToUpperCase(EndpointMethod(e)) \o <<":">> \o EndpointPath(e) :
       e \in GeneratedOnServer}

\* filteredEndpoints: the endpoints listed for selection
FilteredEndpoints ==
    SelectSeq(ProjectEndpoints, LAMBDA ep : GetEndpointKey(ep) \notin generatedEndpoints)

KeysOf(endpoints) == [i \in 1..Len(endpoints) |-> GetEndpointKey(endpoints[i])]

NoGenerateRequest ==
    [phase |-> "none", selected_endpoints |-> None, generated |-> {}]

ProjectClosed ==
    /\ pdMounted = FALSE
    /\ generatedEndpoints = {}
    /\ selectedEndpoints = <<>>
    /\ tabValue = 0
    /\ testLoading = FALSE
    /\ latestPending = FALSE
    /\ generatedPending = FALSE
    /\ generateRequest = NoGenerateRequest

\* the page after its mount effect: both fetches are in flight
ProjectOpened ==
    /\ pdMounted = TRUE
    /\ generatedEndpoints = {}
    /\ selectedEndpoints = <<>>
    /\ tabValue = 0
    /\ testLoading = TRUE
    /\ latestPending = TRUE
    /\ generatedPending = TRUE
    /\ generateRequest = NoGenerateRequest

\* fetchLatestTestSuite is answered
LatestSettled ==
    /\ latestPending
    /\ latestPending' = FALSE
    /\ testLoading' = FALSE
    /\ UNCHANGED <<pdMounted, generatedEndpoints, selectedEndpoints, tabValue,
                   generatedPending, generateRequest>>
    /\ OnlyProject

\* fetchGeneratedEndpoints of the mount is answered
GeneratedFulfilled ==
    /\ generatedPending
    /\ generatedPending' = FALSE
    /\ generatedEndpoints' = GeneratedKeys
    /\ UNCHANGED <<pdMounted, selectedEndpoints, tabValue, testLoading,
                   latestPending, generateRequest>>
    /\ OnlyProject

\* fetchGeneratedEndpoints of the mount fails
GeneratedRejected ==
    /\ generatedPending
    /\ generatedPending' = FALSE
    /\ generatedEndpoints' = {}
    /\ UNCHANGED <<pdMounted, selectedEndpoints, tabValue, testLoading,
                   latestPending, generateRequest>>
    /\ OnlyProject

\* the Endpoints tab is on screen
EndpointsShown ==
    /\ pdMounted
    /\ tabValue = 0

HandleToggleEndpoint ==
    /\ EndpointsShown
    /\ \E i \in 1..Len(FilteredEndpoints) :
         LET key == GetEndpointKey(FilteredEndpoints[i])
         IN selectedEndpoints' = IF SetHas(selectedEndpoints, key)
                                 THEN SetDelete(selectedEndpoints, key)
                                 ELSE SetAdd(selectedEndpoints, key)
    /\ UNCHANGED <<pdMounted, generatedEndpoints, tabValue, testLoading,
                   latestPending, generatedPending, generateRequest>>
    /\ OnlyProject

\* Select All and the checkbox of the header; disabled on an empty list
HandleSelectAllEndpoints ==
    /\ EndpointsShown
    /\ Len(FilteredEndpoints) # 0
    /\ selectedEndpoints' = NewSet(KeysOf(FilteredEndpoints))
    /\ UNCHANGED <<pdMounted, generatedEndpoints, tabValue, testLoading,
                   latestPending, generatedPending, generateRequest>>
    /\ OnlyProject

\* Deselect All; disabled on an empty selection
HandleDeselectAllEndpoints ==
    /\ EndpointsShown
    /\ Len(selectedEndpoints) # 0
    /\ selectedEndpoints' = <<>>
    /\ UNCHANGED <<pdMounted, generatedEndpoints, tabValue, testLoading,
                   latestPending, generatedPending, generateRequest>>
    /\ OnlyProject

\* back to the Endpoints tab
HandleTabChange ==
    /\ pdMounted
    /\ tabValue # 0
    /\ tabValue' = 0
    /\ UNCHANGED <<pdMounted, generatedEndpoints, selectedEndpoints, testLoading,
                   latestPending, generatedPending, generateRequest>>
    /\ OnlyProject

\* the endpoints of the generate request: the keys of the selection, split
EndpointsToGenerate ==
    IF Len(selectedEndpoints) > 0
    THEN Some([i \in 1..Len(selectedEndpoints) |->
                 GenerateEndpoint(selectedEndpoints[i])])
    ELSE None

\* Generate Tests; disabled while state.tests.loading; one handler at a time
HandleGenerateTests ==
    /\ pdMounted
    /\ ~testLoading
    /\ generateRequest.phase = "none"
    /\ generateRequest' =
         [phase |-> "generate", selected_endpoints |-> EndpointsToGenerate,
          generated |-> generatedEndpoints]
    /\ testLoading' = TRUE
    /\ UNCHANGED <<pdMounted, generatedEndpoints, selectedEndpoints, tabValue,
                   latestPending, generatedPending>>
    /\ OnlyProject

\* generate on the server: cases for the endpoints asked for, every endpoint
\* if none is named, skipping those that have test cases already
Generated(req) ==
    LET asked == IF req.selected_endpoints = None THEN Endpoints
                 ELSE Named(req.selected_endpoints[1])
    IN suite \o NewCases(suite, asked \ GeneratedOnServer, Len(createdIndex))

\* the generate request is answered, with a suite or with a failure, and the
\* handler goes on to fetchGeneratedEndpoints
GenerateSettled ==
    /\ generateRequest.phase = "generate"
    /\ \/ UNCHANGED <<suite, createdIndex>>
       \/ /\ Len(Generated(generateRequest)) <= MaxCreated
          /\ suite' = Generated(generateRequest)
          /\ createdIndex' = createdIndex \o
               IndicesOf(SubSeq(suite', Len(suite) + 1, Len(suite')))
    /\ generateRequest' = [generateRequest EXCEPT !.phase = "refresh"]
    /\ testLoading' = FALSE
    /\ UNCHANGED <<pdMounted, generatedEndpoints, selectedEndpoints, tabValue,
                   latestPending, generatedPending>>
    /\ OnlyProjectAndServer

\* fetchGeneratedEndpoints of the handler is answered or fails; the handler
\* then clears the selection and shows the Test Suite tab
RefreshSettled ==
    /\ generateRequest.phase = "refresh"
    /\ \/ generatedEndpoints' = GeneratedKeys
       \/ generatedEndpoints' = {}
    /\ selectedEndpoints' = <<>>
    /\ tabValue' = 1
    /\ generateRequest' = NoGenerateRequest
    /\ UNCHANGED <<pdMounted, testLoading, latestPending, generatedPending>>
    /\ OnlyProject

(***************************************************************************)
(* Test suite page: TestSuite.tsx, the search box and the two views        *)
(***************************************************************************)
QueryChars == {" ", "g", "S", "d"}
Queries == UNION {[1..n -> QueryChars] : n \in 0..MaxQueryLen}

\* the method, endpoint, type, name and description a generated case may have
CaseShapes ==
    {[method |-> <<"G">>, endpoint |-> <<"/", "a">>, type |-> Some(<<"s">>),
      name |-> <<"n">>, description |-> None],
     [method |-> <<"G">>, endpoint |-> <<"/", "a">>, type |-> None,
      name |-> <<"n">>, description |-> Some(<<"d">>)],
     [method |-> <<"P">>, endpoint |-> <<"/", "b">>, type |-> Some(<<"s">>),
      name |-> <<"g">>, description |-> None]}

ViewCase(shape, index) ==
    [index |-> index, method |-> shape.method, endpoint |-> shape.endpoint,
     type |-> shape.type, name |-> shape.name, description |-> shape.description]

\* the suites the page may display: the cases carry the indices 0, 1, ...
ViewSuites ==
    UNION {{[i \in 1..n |-> ViewCase(shapes[i], i - 1)] : shapes \in [1..n -> CaseShapes]}
              : n \in 0..MaxViewCases}

LowerChar(c) ==
    IF c = "G" THEN "g" ELSE IF c = "P" THEN "p" ELSE IF c = "S" THEN "s" ELSE c

\* String.prototype.toLowerCase
ToLowerCase(t) == [i \in 1..Len(t) |-> LowerChar(t[i])]

\* String.prototype.includes
Includes(t, query) ==
    \E from \in 0..(Len(t) - Len(query)) :
        \A i \in 1..Len(query) : t[from + i] = query[i]

\* field?.toLowerCase().includes(query) of a field that may be undefined
OptionalMatch(field, query) ==
    field # None /\ Includes(ToLowerCase(field[1]), query)

\* the filter of testCasesByEndpoint
GroupedFilter(tests, text) ==
    IF Trim(text) = Empty THEN tests
    ELSE LET query == ToLowerCase(text)
         IN SelectSeq(tests, LAMBDA testCase :
                \/ Includes(ToLowerCase(testCase.endpoint), query)
                \/ Includes(ToLowerCase(testCase.method), query)
                \/ Includes(ToLowerCase(testCase.name), query)
                \/ OptionalMatch(testCase.type, query)
                \/ OptionalMatch(testCase.description, query))

Unknown == <<"unknown">>

\* testCase.type || 'unknown'
TestType(testCase) ==
    IF testCase.type # None /\ testCase.type[1] # Empty THEN testCase.type[1] ELSE Unknown

\* the forEach of testCasesByEndpoint: every case is pushed to the list of its
\* endpoint key and type, which are created on first use
RECURSIVE GroupInto(_, _)
GroupInto(grouped, tests) ==
    IF tests = <<>> THEN grouped
    ELSE LET testCase == Head(tests)
             endpointKey == CaseEndpointKey(testCase)
             testType == TestType(testCase)
             byType == IF endpointKey \in DOMAIN grouped THEN grouped[endpointKey] ELSE <<>>
             typeTests == IF testType \in DOMAIN byType THEN byType[testType] ELSE <<>>
             newByType == (testType :> Append(typeTests, testCase)) @@ byType
         IN GroupInto((endpointKey :> newByType) @@ grouped, Tail(tests))

TestCasesByEndpoint(tests, text) == GroupInto(<<>>, GroupedFilter(tests, text))

\* the filter of the list view that leaves the description out
FilteredTestsNoDescription(tests, text) ==
    IF Trim(text) = Empty THEN tests
    ELSE LET query == ToLowerCase(text)
         IN SelectSeq(tests, LAMBDA testCase :
                \/ Includes(ToLowerCase(testCase.endpoint), query)
                \/ Includes(ToLowerCase(testCase.method), query)
                \/ Includes(ToLowerCase(testCase.name), query)
                \/ OptionalMatch(testCase.type, query))
\* filteredTests, the rows of the list view
FilteredTests(tests, text) ==
    IF Trim(text) = Empty THEN tests
    ELSE LET query == ToLowerCase(text)
         IN SelectSeq(tests, LAMBDA testCase :
                \/ Includes(ToLowerCase(testCase.endpoint), query)
                \/ Includes(ToLowerCase(testCase.method), query)
                \/ Includes(ToLowerCase(testCase.name), query)
                \/ OptionalMatch(testCase.type, query)
                \/ OptionalMatch(testCase.description, query))

\* the rows of the grouped view: per endpoint key and type, the cases of the list
GroupedRows(grouped) ==
    UNION {UNION {{[endpointKey |-> endpointKey, type |-> type, at |-> i,
                    testCase |-> grouped[endpointKey][type][i]]
                      : i \in 1..Len(grouped[endpointKey][type])}
                    : type \in DOMAIN grouped[endpointKey]}
              : endpointKey \in DOMAIN grouped}

\* the page is not on display
ViewsClosed ==
    /\ viewTests = <<>>
    /\ searchQuery = Empty
    /\ viewMode = ""

\* the page on display with a suite loaded
ViewsOpen ==
    /\ viewTests \in ViewSuites
    /\ searchQuery = Empty
    /\ viewMode = "grouped"

\* the search box changes
SetSearchQuery ==
    /\ viewMode # ""
    /\ \E text \in Queries \ {searchQuery} : searchQuery' = text
    /\ UNCHANGED <<viewTests, viewMode>>
    /\ OnlyViews

\* the toggle between the grouped and the list view
SetViewMode ==
    /\ viewMode # ""
    /\ viewMode' = IF viewMode = "grouped" THEN "list" ELSE "grouped"
    /\ UNCHANGED <<viewTests, searchQuery>>
    /\ OnlyViews

(***************************************************************************)
(* Api client: the axios instance and its interceptors                     *)
(***************************************************************************)
\* the values localStorage may hold under 'token'
StoredTokens == {Empty, <<"t">>}

Bearer == <<"Bearer ">>

\* an error that carries no response (the request never reached the server)
NoResponse == 0

\* what a request ends with: a status of the server, or no response at all
Answers == {200, 401, 500, NoResponse}

\* request interceptor: the Authorization header, set if a token is available
RequestHeaders(token) ==
    IF token # None /\ token[1] # Empty THEN Some(Bearer \o token[1]) ELSE None

\* a response interceptor that leaves the stored token alone
TokenAfterErrorKept(answer, token) == token
\* response interceptor, error branch: a 401 removes the stored token
TokenAfterError(answer, token) == IF answer = 401 THEN None ELSE token

NoOutcome == [kind |-> "none", answer |-> NoResponse]

\* nothing stored, nothing in flight
ApiIdle ==
    /\ apiToken = None
    /\ apiInFlight = <<>>
    /\ apiOutcome = NoOutcome
    /\ apiSince401 = FALSE

\* a token is written to localStorage
ApiStoreToken ==
    /\ \E token \in StoredTokens : apiToken' = Some(token)
    /\ apiSince401' = FALSE
    /\ UNCHANGED <<apiInFlight, apiOutcome>>
    /\ OnlyApi

\* a caller issues a request: the request interceptor runs and the request
\* leaves with the headers it made
ApiRequest ==
    /\ Len(apiInFlight) < MaxInFlight
    /\ apiInFlight' = Append(apiInFlight,
            [headers |-> RequestHeaders(apiToken), after401 |-> apiSince401])
    /\ UNCHANGED <<apiToken, apiOutcome, apiSince401>>
    /\ OnlyApi

\* request i ends with the given answer: the response interceptor runs and
\* the caller's promise settles
ApiResponded(i, answer) ==
    /\ i \in 1..Len(apiInFlight)
    /\ apiInFlight' = [k \in 1..(Len(apiInFlight) - 1) |->
                            IF k < i THEN apiInFlight[k] ELSE apiInFlight[k + 1]]
    /\ IF answer = 200
       THEN /\ apiOutcome' = [kind |-> "resolved", answer |-> answer]
            /\ UNCHANGED <<apiToken, apiSince401>>
       ELSE /\ apiToken' = TokenAfterError(answer, apiToken)
            /\ apiOutcome' = [kind |-> "rejected", answer |-> answer]
            /\ apiSince401' = (apiSince401 \/ answer = 401)
    /\ OnlyApi

ApiResponse == \E i \in 1..Len(apiInFlight), answer \in Answers : ApiResponded(i, answer)

(***************************************************************************)
(* Tests slice of the store: testSlice.ts                                  *)
(***************************************************************************)
Thunks == {"generateTests", "executeTests", "fetchLatestTestSuite", "fetchExecution"}

\* the thunks whose pending and settled reducers write state.tests.loading
LoadingThunks == {"generateTests", "executeTests", "fetchLatestTestSuite"}

\* the statuses the server answers a request with
Statuses == {200, 404, 500}

\* action.error.message || '...' of the rejected reducers
RejectedMessage(thunk) ==
    IF thunk = "generateTests" THEN <<"Failed to generate tests">>
    ELSE IF thunk = "executeTests" THEN <<"Failed to execute tests">>
    ELSE <<"Failed to fetch test suite">>

\* the payload creator of fetchLatestTestSuite that rethrows every error
LatestOutcomeRethrown(status) ==
    IF status = 200 THEN [fulfilled |-> TRUE, payload |-> Some("latest")]
    ELSE [fulfilled |-> FALSE, payload |-> None]
\* the payload creator of fetchLatestTestSuite: the data, null for a 404, and
\* any other error rethrown
LatestOutcome(status) ==
    IF status = 200 THEN [fulfilled |-> TRUE, payload |-> Some("latest")]
    ELSE IF status = 404 THEN [fulfilled |-> TRUE, payload |-> None]
    ELSE [fulfilled |-> FALSE, payload |-> None]

\* the slice in its initial state, nothing in flight
TestsIdle ==
    /\ storeTestSuite = None
    /\ storeExecution = None
    /\ testError = NoError
    /\ pendingThunks = [t \in Thunks |-> 0]
    /\ latestAnswer = 0

OnlyStore ==
    /\ UNCHANGED <<pdMounted, generatedEndpoints, selectedEndpoints, tabValue>>
    /\ UNCHANGED <<latestPending, generatedPending, generateRequest>>
    /\ OnlyTests

\* a thunk is dispatched: its pending reducer
ThunkPending(thunk) ==
    /\ pendingThunks[thunk] < MaxPending
    /\ pendingThunks' = [pendingThunks EXCEPT ![thunk] = @ + 1]
    /\ IF thunk \in LoadingThunks
       THEN /\ testLoading' = TRUE
            /\ testError' = NoError
       ELSE UNCHANGED <<testLoading, testError>>
    /\ UNCHANGED <<storeTestSuite, storeExecution, latestAnswer>>
    /\ OnlyStore

DispatchThunk == \E thunk \in Thunks : ThunkPending(thunk)

\* generateTests.fulfilled
TestsGenerateFulfilled ==
    /\ pendingThunks["generateTests"] > 0
    /\ pendingThunks' = [pendingThunks EXCEPT !["generateTests"] = @ - 1]
    /\ testLoading' = FALSE
    /\ storeTestSuite' = Some("generated")
    /\ UNCHANGED <<storeExecution, testError, latestAnswer>>
    /\ OnlyStore

\* generateTests.rejected
TestsGenerateRejected ==
    /\ pendingThunks["generateTests"] > 0
    /\ pendingThunks' = [pendingThunks EXCEPT !["generateTests"] = @ - 1]
    /\ testLoading' = FALSE
    /\ testError' = RejectedMessage("generateTests")
    /\ UNCHANGED <<storeTestSuite, storeExecution, latestAnswer>>
    /\ OnlyStore

\* executeTests.fulfilled
TestsExecuteFulfilled ==
    /\ pendingThunks["executeTests"] > 0
    /\ pendingThunks' = [pendingThunks EXCEPT !["executeTests"] = @ - 1]
    /\ testLoading' = FALSE
    /\ storeExecution' = Some("started")
    /\ UNCHANGED <<storeTestSuite, testError, latestAnswer>>
    /\ OnlyStore

\* executeTests.rejected
TestsExecuteRejected ==
    /\ pendingThunks["executeTests"] > 0
    /\ pendingThunks' = [pendingThunks EXCEPT !["executeTests"] = @ - 1]
    /\ testLoading' = FALSE
    /\ testError' = RejectedMessage("executeTests")
    /\ UNCHANGED <<storeTestSuite, storeExecution, latestAnswer>>
    /\ OnlyStore

\* fetchExecution settles: only its fulfilled case has a reducer
TestsFetchExecutionSettled ==
    /\ pendingThunks["fetchExecution"] > 0
    /\ pendingThunks' = [pendingThunks EXCEPT !["fetchExecution"] = @ - 1]
    /\ \/ storeExecution' = Some("fetched")
       \/ UNCHANGED storeExecution
    /\ UNCHANGED <<testLoading, storeTestSuite, testError, latestAnswer>>
    /\ OnlyStore

\* the server answers a fetchLatestTestSuite request with the given status:
\* the fulfilled or the rejected reducer runs
LatestAnswered(status) ==
    /\ pendingThunks["fetchLatestTestSuite"] > 0
    /\ pendingThunks' = [pendingThunks EXCEPT !["fetchLatestTestSuite"] = @ - 1]
    /\ latestAnswer' = status
    /\ testLoading' = FALSE
    /\ IF LatestOutcome(status).fulfilled
       THEN /\ storeTestSuite' = LatestOutcome(status).payload
            /\ UNCHANGED testError
       ELSE /\ storeTestSuite' = None
            /\ testError' = RejectedMessage("fetchLatestTestSuite")
    /\ UNCHANGED storeExecution
    /\ OnlyStore

TestsLatestSettled == \E status \in Statuses : LatestAnswered(status)

(***************************************************************************)
(* Configuration page: Config.tsx and the config slice                     *)
(***************************************************************************)
AuthTypes == {"", "basic", "bearer", "api_key"}
Providers == {"openai", "xai", "local"}
SecretFields == {"auth_password", "auth_token", "auth_key_value", "llm_api_key"}

\* the masked texts shown for a stored key
PlaceholderSk == <<"s", "k", "-", MaskChar>>
PlaceholderPlain == <<MaskChar>>

\* the projects whose configuration page is visited; the first is the one
\* the page stays on
HomeProject == "P"
Projects == {HomeProject, "Q"}

\* the base URLs on file, and what a user types into the field
StoredUrl == <<"c">>
TemplateUrl == <<"t">>
TypedUrls == {Empty, <<"u">>}

\* the store before any fetch: config is null
NullConfig ==
    [present |-> FALSE, project |-> "", base_url |-> Empty, auth_type |-> "",
     llm_provider |-> "", has_auth |-> FALSE, has_llm_key |-> FALSE]

\* the answers of GET /config/{projectId}: no secret, only the two flags
ConfigValues ==
    [present : {TRUE}, project : Projects, base_url : {StoredUrl},
     auth_type : {"", "bearer"}, llm_provider : {"", "xai"},
     has_auth : BOOLEAN, has_llm_key : BOOLEAN]

\* the reusable configurations of GET /config
Templates ==
    {[config_id |-> "t1", base_url |-> TemplateUrl, auth_type |-> "basic",
      llm_provider |-> "xai"],
     [config_id |-> "t2", base_url |-> Empty, auth_type |-> "",
      llm_provider |-> ""]}

\* the values of the Load Existing Config select
ConfigIds == {""} \cup {t.config_id : t \in Templates}

\* state.config.error: null, or the message of the rejected request
FetchError == <<"Failed to fetch config">>
SaveError == <<"Failed to save config">>

InitialFormData ==
    [base_url |-> Empty, auth_type |-> "", auth_password |-> Empty,
     auth_token |-> Empty, auth_key_value |-> Empty, llm_provider |-> "openai",
     llm_api_key |-> Empty]

NoRequest == [kind |-> "none", body |-> [f \in {} |-> Empty]]

\* config?.has_llm_key and config?.has_auth
HasLlmKey == config.present /\ config.has_llm_key
HasAuth == config.present /\ config.has_auth

\* the component state the handlers work on
Local == [formData |-> formData, masked |-> llmKeyMasked,
          placeholder |-> llmKeyPlaceholder]

\* one run of the effect that fills the form from the config
EffectOnce(c, l) ==
    IF ~c.present THEN l
    ELSE
      LET filled == [l.formData EXCEPT
                       !.base_url = c.base_url,
                       !.auth_type = c.auth_type,
                       !.llm_provider =
                           IF c.llm_provider = "" THEN "openai" ELSE c.llm_provider]
          currentProvider ==
              IF l.formData.llm_provider # "" THEN l.formData.llm_provider
              ELSE IF c.llm_provider # "" THEN c.llm_provider ELSE "openai"
          maskedValue ==
              IF currentProvider \in {"openai", "openrouter"}
              THEN PlaceholderSk ELSE PlaceholderPlain
      IN IF c.has_llm_key
         THEN [formData |-> IF l.masked
                            THEN [filled EXCEPT !.llm_api_key = Empty]
                            ELSE filled,
               masked |-> l.masked,
               placeholder |-> maskedValue]
         ELSE [formData |-> filled, masked |-> TRUE, placeholder |-> Empty]

\* the dependencies of the effect that belong to the component
Deps(l) == <<l.masked, l.formData.llm_provider>>

\* the effect runs again while it changes its own dependencies
Effect(c, l) ==
    LET l1 == EffectOnce(c, l)
    IN IF Deps(l1) = Deps(l) THEN l1 ELSE EffectOnce(c, l1)

\* the render after a handler: the effect runs if a dependency changed
AfterHandler(l) == IF Deps(l) # Deps(Local) THEN Effect(config, l) ELSE l

SetLocal(l) ==
    /\ formData' = l.formData
    /\ llmKeyMasked' = l.masked
    /\ llmKeyPlaceholder' = l.placeholder

\* the LLM key field without its readOnly attribute
LlmKeyReadOnlyMissing == FALSE

\* the LLM key field: its value, readOnly and disabled attributes
LlmKeyShown == IF llmKeyMasked /\ HasLlmKey THEN llmKeyPlaceholder ELSE formData.llm_api_key
LlmKeyReadOnly == llmKeyMasked /\ HasLlmKey
LlmKeyDisabled == formData.llm_provider = "local"

\* the user can act: the page is shown and no save or test is being answered
Idle == mounted /\ request.kind = "none"

\* window.confirm is open: nothing else runs until the user has answered
Asking == request.kind = "confirm"

\* the component is mounted on the page of project p: fresh state,
\* fetchConfig(p) dispatched (its pending clears the error), the effect runs on
\* whatever config the store still holds; a request of an earlier visit that
\* is still in flight is not followed further
MountOn(p) ==
    /\ ~mounted
    /\ mounted' = TRUE
    /\ projectId' = p
    /\ cfgPending' = TRUE
    /\ cfgError' = NoError
    /\ selectedConfigId' = ""
    /\ SetLocal(Effect(config, [formData |-> InitialFormData, masked |-> TRUE,
                                placeholder |-> Empty]))
    /\ request' = NoRequest
    /\ UNCHANGED <<config, keyTyped>>
    /\ OnlyConfig

Mount == MountOn(HomeProject)

\* the page of any project is opened
MountAny == \E p \in Projects : MountOn(p)
    /\ OnlyConfig

FetchConfigFulfilled ==
    /\ cfgPending
    /\ ~Asking
    /\ \E c \in ConfigValues :
         /\ c.project = projectId
         /\ config' = c
         /\ IF mounted THEN SetLocal(Effect(c, Local))
            ELSE UNCHANGED <<formData, llmKeyMasked, llmKeyPlaceholder>>
    /\ cfgPending' = FALSE
    /\ UNCHANGED <<mounted, request, keyTyped>>
    /\ UNCHANGED <<projectId, cfgError, selectedConfigId>>
    /\ OnlyConfig

FetchConfigRejected ==
    /\ cfgPending
    /\ ~Asking
    /\ cfgPending' = FALSE
    /\ cfgError' = FetchError
    /\ UNCHANGED <<mounted, config, formData, llmKeyMasked, llmKeyPlaceholder,
                   request, keyTyped>>
    /\ UNCHANGED <<projectId, selectedConfigId>>
    /\ OnlyConfig

\* handleChange(field) with event.target.value = v, and the render after it
ChangeField(field, v) ==
    /\ Idle
    /\ SetLocal(AfterHandler([Local EXCEPT !.formData[field] = v]))
    /\ UNCHANGED <<mounted, config, cfgPending, request, keyTyped>>
    /\ UNCHANGED <<projectId, cfgError, selectedConfigId>>
    /\ OnlyConfig

\* handleChange(field) of the Auth Type and LLM Provider selects
HandleChangeSelect ==
    \/ \E v \in AuthTypes \ {formData.auth_type} : ChangeField("auth_type", v)
    \/ \E v \in Providers \ {formData.llm_provider} : ChangeField("llm_provider", v)

\* handleChange(field) of the auth secret field that the auth type shows
HandleChangeSecret ==
    /\ Idle
    /\ \/ /\ formData.auth_type = "basic"
          /\ \E v \in InputValues(formData.auth_password) :
               SetLocal(AfterHandler([Local EXCEPT !.formData.auth_password = v]))
       \/ /\ formData.auth_type = "bearer"
          /\ \E v \in InputValues(formData.auth_token) :
               SetLocal(AfterHandler([Local EXCEPT !.formData.auth_token = v]))
       \/ /\ formData.auth_type = "api_key"
          /\ \E v \in InputValues(formData.auth_key_value) :
               SetLocal(AfterHandler([Local EXCEPT !.formData.auth_key_value = v]))
    /\ UNCHANGED <<mounted, config, cfgPending, request, keyTyped>>
    /\ UNCHANGED <<projectId, cfgError, selectedConfigId>>
    /\ OnlyConfig

\* handleChange('base_url')
HandleChangeUrl ==
    /\ Idle
    /\ \E v \in TypedUrls \ {formData.base_url} :
         SetLocal(AfterHandler([Local EXCEPT !.formData.base_url = v]))
    /\ UNCHANGED <<mounted, config, cfgPending, request, keyTyped>>
    /\ UNCHANGED <<projectId, cfgError, selectedConfigId>>
    /\ OnlyConfig

\* handleChange(field) of the selects and of the auth secret fields
HandleChange == HandleChangeSelect \/ HandleChangeSecret

\* onChange of the LLM key field; a read-only or disabled input takes no input
LlmKeyChange ==
    /\ Idle
    /\ ~LlmKeyReadOnly
    /\ ~LlmKeyDisabled
    /\ \E v \in InputValues(LlmKeyShown) :
         /\ SetLocal(AfterHandler(
              IF llmKeyMasked /\ HasLlmKey
              THEN [Local EXCEPT !.masked = FALSE, !.formData.llm_api_key = v]
              ELSE [Local EXCEPT !.formData.llm_api_key = v]))
         /\ keyTyped' = IF llmKeyMasked /\ HasLlmKey THEN keyTyped ELSE v
    /\ UNCHANGED <<mounted, config, cfgPending, request>>
    /\ UNCHANGED <<projectId, cfgError, selectedConfigId>>
    /\ OnlyConfig

LlmKeyFocus ==
    /\ Idle
    /\ ~LlmKeyDisabled
    /\ SetLocal(AfterHandler(
         IF llmKeyMasked /\ HasLlmKey
         THEN [Local EXCEPT !.masked = FALSE, !.formData.llm_api_key = Empty]
         ELSE Local))
    /\ UNCHANGED <<mounted, config, cfgPending, request, keyTyped>>
    /\ UNCHANGED <<projectId, cfgError, selectedConfigId>>
    /\ OnlyConfig

LlmKeyBlur ==
    /\ Idle
    /\ ~LlmKeyDisabled
    /\ SetLocal(AfterHandler(
         IF formData.llm_api_key = Empty /\ HasLlmKey
         THEN [Local EXCEPT !.masked = TRUE]
         ELSE Local))
    /\ UNCHANGED <<mounted, config, cfgPending, request, keyTyped>>
    /\ UNCHANGED <<projectId, cfgError, selectedConfigId>>
    /\ OnlyConfig

\* what handleLoadConfigTemplate puts into the form for template t
TemplateForm(t) ==
    [base_url |-> t.base_url,
     auth_type |-> t.auth_type,
     auth_password |-> Empty,
     auth_token |-> Empty,
     auth_key_value |-> Empty,
     llm_provider |-> IF t.llm_provider = "" THEN "openai" ELSE t.llm_provider,
     llm_api_key |-> Empty]

\* the Load Existing Config select: 'Manual entry' names no template
HandleLoadConfigTemplate ==
    /\ Idle
    /\ \E configId \in ConfigIds \ {selectedConfigId} :
         /\ selectedConfigId' = configId
         /\ IF \E t \in Templates : t.config_id = configId
            THEN LET template == CHOOSE t \in Templates : t.config_id = configId
                 IN SetLocal(AfterHandler(
                      [Local EXCEPT !.formData = TemplateForm(template)]))
            ELSE UNCHANGED <<formData, llmKeyMasked, llmKeyPlaceholder>>
    /\ UNCHANGED <<mounted, config, cfgPending, request, keyTyped>>
    /\ UNCHANGED <<projectId, cfgError>>
    /\ OnlyConfig

\* handleSubmit without the delete of the empty key
ConfigToSaveNoDelete(fd, hasKey) == [f \in DOMAIN fd |-> fd[f]]

\* configToSave of handleSubmit
ConfigToSave(fd, hasKey) ==
    IF fd.llm_api_key = Empty /\ hasKey
    THEN [f \in (DOMAIN fd) \ {"llm_api_key"} |-> fd[f]]
    ELSE [f \in DOMAIN fd |-> fd[f]]

\* handleSubmit up to its await: saveConfig.pending clears the error
HandleSubmit ==
    /\ Idle
    /\ request' = [kind |-> "save", body |-> ConfigToSave(formData, HasLlmKey)]
    /\ cfgError' = NoError
    /\ UNCHANGED <<mounted, config, cfgPending, formData, llmKeyMasked,
                   llmKeyPlaceholder, keyTyped>>
    /\ UNCHANGED <<projectId, selectedConfigId>>
    /\ OnlyConfig

\* saveConfig settles, fulfilled or rejected; the dispatch resolves either
\* way and handleSubmit goes on to navigate to the project page
SaveSettled ==
    /\ request.kind = "save"
    /\ request' = NoRequest
    /\ \E fulfilled \in BOOLEAN :
         cfgError' = IF fulfilled THEN cfgError ELSE SaveError
    /\ mounted' = FALSE
    /\ UNCHANGED <<config, cfgPending, formData, llmKeyMasked, llmKeyPlaceholder,
                   keyTyped>>
    /\ UNCHANGED <<projectId, selectedConfigId>>
    /\ OnlyConfig

\* testPayload of the Test LLM Connection button
TestPayload(fd, masked, hasKey) ==
    LET send == ~((masked /\ hasKey) \/ fd.llm_api_key = Empty
                  \/ Trim(fd.llm_api_key) = Empty)
        provider == IF fd.llm_provider = "" THEN "openai" ELSE fd.llm_provider
    IN IF send
       THEN [f \in {"llm_provider", "llm_api_key"} |->
               IF f = "llm_provider" THEN provider ELSE fd.llm_api_key]
       ELSE [f \in {"llm_provider"} |-> provider]

TestLlmClick ==
    /\ Idle
    /\ request' = [kind |-> "test-llm",
                   body |-> TestPayload(formData, llmKeyMasked, HasLlmKey)]
    /\ UNCHANGED <<mounted, config, cfgPending, formData, llmKeyMasked,
                   llmKeyPlaceholder, keyTyped>>
    /\ UNCHANGED <<projectId, cfgError, selectedConfigId>>
    /\ OnlyConfig

\* the answers to test-llm: success, or a failure with its message
Succeeded == <<>>
LlmTestErrors == {<<"decrypt">>, <<"decryption">>, <<"timeout">>}

\* errorMsg.includes('decrypt') || errorMsg.includes('decryption')
IsDecryption(errorMsg) ==
    \E i \in 1..Len(errorMsg) : errorMsg[i] \in {"decrypt", "decryption"}

\* a handler that un-masks the key field on a decryption failure at once
TestLlmSettledUnasked ==
    /\ request.kind = "test-llm"
    /\ \E answer \in {Succeeded} \cup LlmTestErrors :
         IF IsDecryption(answer)
         THEN /\ request' = NoRequest
              /\ SetLocal(AfterHandler(
                   [Local EXCEPT !.masked = FALSE, !.formData.llm_api_key = Empty]))
         ELSE /\ request' = NoRequest
              /\ UNCHANGED <<formData, llmKeyMasked, llmKeyPlaceholder>>
    /\ UNCHANGED <<mounted, config, cfgPending, keyTyped>>
    /\ UNCHANGED <<projectId, cfgError, selectedConfigId>>
    /\ OnlyConfig

\* the answer to test-llm: a success and any failure but a decryption failure
\* are only reported; on a decryption failure window.confirm asks the user
\* whether to re-enter the key
TestLlmSettled ==
    /\ request.kind = "test-llm"
    /\ \E answer \in {Succeeded} \cup LlmTestErrors :
         request' = IF IsDecryption(answer)
                    THEN [kind |-> "confirm", body |-> request.body,
                          error |-> answer]
                    ELSE NoRequest
    /\ UNCHANGED <<formData, llmKeyMasked, llmKeyPlaceholder>>
    /\ UNCHANGED <<mounted, config, cfgPending, keyTyped>>
    /\ UNCHANGED <<projectId, cfgError, selectedConfigId>>
    /\ OnlyConfig

\* the user answers window.confirm: on OK the key field is un-masked and
\* emptied, on Cancel nothing is done
ReenterAnswered ==
    /\ Asking
    /\ request' = NoRequest
    /\ \E shouldReenter \in BOOLEAN :
         IF shouldReenter
         THEN SetLocal(AfterHandler(
                [Local EXCEPT !.masked = FALSE, !.formData.llm_api_key = Empty]))
         ELSE UNCHANGED <<formData, llmKeyMasked, llmKeyPlaceholder>>
    /\ UNCHANGED <<mounted, config, cfgPending, keyTyped>>
    /\ UNCHANGED <<projectId, cfgError, selectedConfigId>>
    /\ OnlyConfig

\* the configuration page is not open and the store holds no config yet
ConfigClosed ==
    /\ mounted = FALSE
    /\ config = NullConfig
    /\ cfgPending = FALSE
    /\ formData = InitialFormData
    /\ llmKeyMasked = TRUE
    /\ llmKeyPlaceholder = Empty
    /\ request = NoRequest
    /\ keyTyped = Empty
    /\ projectId = HomeProject
    /\ cfgError = NoError
    /\ selectedConfigId = ""

(***************************************************************************)
(* Configuration page: the integrations section of Config.tsx              *)
(* (the issue-tracker settings are stored by the backend, section 5)       *)
(***************************************************************************)
IntProviders == {"jira", "github"}

\* what the server holds for a provider: nothing, settings without a token,
\* settings with a token
StoredKinds == {"absent", "no-token", "token"}

\* the items of GET /integrations/config/{projectId}
IntegrationItems ==
    {[provider |-> q, has_token |-> intStored[q] = "token"] :
       q \in {r \in IntProviders : intStored[r] # "absent"}}

\* jira || gh || items[0]
InitialItem(items) ==
    IF \E i \in items : i.provider = "jira"
    THEN CHOOSE i \in items : i.provider = "jira"
    ELSE CHOOSE i \in items : i.provider = "github"

\* the payload of Save Integration: auth_token only if a token was entered
IntegrationPayload ==
    [provider |-> integrationProvider,
     auth_token |-> IF integrationToken # Empty THEN Some(integrationToken) ELSE None]

\* the section as the component first renders it
IntegrationFresh ==
    /\ integrationProvider = "jira"
    /\ integrationToken = Empty
    /\ hasExistingIntegrationToken = FALSE
    /\ intLoading = FALSE
    /\ intSave = None

IntegrationClosed ==
    /\ intOpen = FALSE
    /\ IntegrationFresh
    /\ intStored = [q \in IntProviders |-> "absent"]

\* the page is opened: fresh state, loadIntegrations is called
IntegrationsOpen ==
    /\ ~intOpen
    /\ intOpen' = TRUE
    /\ integrationProvider' = "jira"
    /\ integrationToken' = Empty
    /\ hasExistingIntegrationToken' = FALSE
    /\ intLoading' = TRUE
    /\ intSave' = None
    /\ UNCHANGED intStored
    /\ OnlyIntegration

\* the page is left; what is still in flight is not followed further
IntegrationsLeave ==
    /\ intOpen
    /\ intSave = None
    /\ intOpen' = FALSE
    /\ integrationProvider' = "jira"
    /\ integrationToken' = Empty
    /\ hasExistingIntegrationToken' = FALSE
    /\ intLoading' = FALSE
    /\ intSave' = None
    /\ UNCHANGED intStored
    /\ OnlyIntegration

\* the answer to loadIntegrations
LoadIntegrationsFulfilled ==
    /\ intOpen
    /\ intLoading
    /\ intLoading' = FALSE
    /\ integrationToken' = Empty
    /\ IF IntegrationItems # {}
       THEN /\ integrationProvider' = InitialItem(IntegrationItems).provider
            /\ hasExistingIntegrationToken' = InitialItem(IntegrationItems).has_token
       ELSE /\ hasExistingIntegrationToken' = FALSE
            /\ UNCHANGED integrationProvider
    /\ UNCHANGED <<intOpen, intSave, intStored>>
    /\ OnlyIntegration

LoadIntegrationsRejected ==
    /\ intOpen
    /\ intLoading
    /\ intLoading' = FALSE
    /\ UNCHANGED <<intOpen, integrationProvider, integrationToken>>
    /\ UNCHANGED <<hasExistingIntegrationToken, intSave, intStored>>
    /\ OnlyIntegration

\* the Provider select
ChangeIntegrationProvider ==
    /\ intOpen
    /\ \E q \in IntProviders \ {integrationProvider} : integrationProvider' = q
    /\ UNCHANGED <<intOpen, integrationToken, hasExistingIntegrationToken>>
    /\ UNCHANGED <<intLoading, intSave, intStored>>
    /\ OnlyIntegration

\* the token field
ChangeIntegrationToken ==
    /\ intOpen
    /\ \E v \in InputValues(integrationToken) \ {integrationToken} :
         integrationToken' = v
    /\ UNCHANGED <<intOpen, integrationProvider, hasExistingIntegrationToken>>
    /\ UNCHANGED <<intLoading, intSave, intStored>>
    /\ OnlyIntegration

\* Save Integration, up to its await
SaveIntegrationClick ==
    /\ intOpen
    /\ intSave = None
    /\ intSave' = Some(IntegrationPayload)
    /\ UNCHANGED <<intOpen, integrationProvider, integrationToken>>
    /\ UNCHANGED <<hasExistingIntegrationToken, intLoading, intStored>>
    /\ OnlyIntegration

\* the server stores the settings: a token that was sent replaces the stored
\* one, settings without a token leave the stored token as it is
StoredAfter(payload) ==
    [intStored EXCEPT ![payload.provider] =
        IF payload.auth_token # None \/ intStored[payload.provider] = "token"
        THEN "token" ELSE "no-token"]

\* the request succeeded: the token field is emptied, the flag is set
SaveIntegrationFulfilled ==
    /\ intOpen
    /\ intSave # None
    /\ intStored' = StoredAfter(intSave[1])
    /\ integrationToken' = Empty
    /\ hasExistingIntegrationToken' = TRUE
    /\ intSave' = None
    /\ UNCHANGED <<intOpen, integrationProvider, intLoading>>
    /\ OnlyIntegration

\* the request failed: only an alert
SaveIntegrationRejected ==
    /\ intOpen
    /\ intSave # None
    /\ intSave' = None
    /\ UNCHANGED <<intOpen, integrationProvider, integrationToken>>
    /\ UNCHANGED <<hasExistingIntegrationToken, intLoading, intStored>>
    /\ OnlyIntegration

(***************************************************************************)
(* Reports page: Reports.tsx                                               *)
(***************************************************************************)
Scopes == {"global", "project", "suite"}
ReportModes == {"period", "last-run"}
DayChoices == {7, 30, 90, 365}
InitialDays == 30

\* the rows of endpoint_performance of a report
ReportEndpoints == {"A", "B"}

\* the address fetchReportData asks
ReportUrl(scope, mode, d) ==
    [scope |-> scope, mode |-> mode,
     days |-> IF mode = "last-run" THEN None ELSE Some(d)]

\* a report: what was asked, and whether it counts no execution and no test
ReportData(url, noExecutions) == [url |-> url, noExecutions |-> noExecutions]

\* the answers of GET /reports/projects
ProjectsAnswers == {<<>>, <<"p">>}

\* the statuses of a failed report request
ReportFailures == {404, 500}

NoTestCases == [e \in ReportEndpoints |-> "undefined"]
NoToggles == [e \in ReportEndpoints |-> None]

ReportsClosed ==
    /\ rpMounted = FALSE
    /\ rpScope = "global"
    /\ reportData = None
    /\ rpLoading = TRUE
    /\ days = InitialDays
    /\ reportMode = "period"
    /\ downloading = FALSE
    /\ projectsData = <<>>
    /\ expandedEndpoints = <<>>
    /\ endpointTestCases = NoTestCases
    /\ loadingTestCases = <<>>
    /\ isCleared = FALSE
    /\ reportPending = None
    /\ projectsPending = 0
    /\ togglePending = NoToggles

\* which of the component's returns is on screen
Screen ==
    IF ~rpMounted THEN "none"
    ELSE IF rpLoading THEN "loading"
    ELSE IF rpScope = "global" /\ projectsData # <<>> /\ reportData = None
    THEN "projects"
    ELSE IF reportData = None
    THEN IF reportMode = "last-run" THEN "no-last-run"
         ELSE IF isCleared THEN "cleared"
         ELSE "failed"
    ELSE IF reportData[1].noExecutions /\ reportMode = "period"
    THEN "no-executions"
    ELSE "report"

\* the report type and time period selects and the Refresh button are shown
ToolbarShown == Screen \in {"failed", "no-executions", "report"}

\* fetchReportData called with the mode and the days of the render it closes over
FetchReportData(mode, d) ==
    /\ rpLoading' = TRUE
    /\ isCleared' = FALSE
    /\ reportPending' = Some(ReportUrl(rpScope, mode, d))

\* fetchProjectsData
FetchProjectsData ==
    /\ projectsPending < MaxProjectsPending
    /\ projectsPending' = projectsPending + 1

\* the effect after a render in which the mode or the days changed
ReportsEffect(mode, d) ==
    IF isCleared
    THEN UNCHANGED <<rpLoading, isCleared, reportPending, projectsPending>>
    ELSE /\ IF rpScope = "global"
            THEN FetchProjectsData
            ELSE UNCHANGED projectsPending
         /\ FetchReportData(mode, d)

\* the route shows the component: fresh state, then the effect
ReportsMount ==
    /\ ~rpMounted
    /\ rpMounted' = TRUE
    /\ rpScope' \in Scopes
    /\ reportData' = None
    /\ rpLoading' = TRUE
    /\ isCleared' = FALSE
    /\ reportPending' = Some(ReportUrl(rpScope', "period", InitialDays))
    /\ projectsPending' = IF rpScope' = "global" THEN 1 ELSE 0
    /\ UNCHANGED <<days, reportMode, downloading, projectsData>>
    /\ UNCHANGED <<expandedEndpoints, endpointTestCases, loadingTestCases>>
    /\ UNCHANGED togglePending
    /\ OnlyReports

\* window.location.href = ...: the page is left, its answers are dropped
ReportsLeave ==
    /\ Screen \in {"projects", "no-last-run", "cleared", "report"}
    /\ rpMounted' = FALSE
    /\ rpScope' = "global"
    /\ reportData' = None
    /\ rpLoading' = TRUE
    /\ days' = InitialDays
    /\ reportMode' = "period"
    /\ downloading' = FALSE
    /\ projectsData' = <<>>
    /\ expandedEndpoints' = <<>>
    /\ endpointTestCases' = NoTestCases
    /\ loadingTestCases' = <<>>
    /\ isCleared' = FALSE
    /\ reportPending' = None
    /\ projectsPending' = 0
    /\ togglePending' = NoToggles
    /\ OnlyReports

ProjectsFulfilled ==
    /\ rpMounted
    /\ projectsPending > 0
    /\ projectsPending' = projectsPending - 1
    /\ projectsData' \in ProjectsAnswers
    /\ UNCHANGED <<rpMounted, rpScope, reportData, rpLoading, days, reportMode>>
    /\ UNCHANGED <<downloading, expandedEndpoints, endpointTestCases>>
    /\ UNCHANGED <<loadingTestCases, isCleared, reportPending, togglePending>>
    /\ OnlyReports

ProjectsRejected ==
    /\ rpMounted
    /\ projectsPending > 0
    /\ projectsPending' = projectsPending - 1
    /\ UNCHANGED <<rpMounted, rpScope, reportData, rpLoading, days, reportMode>>
    /\ UNCHANGED <<downloading, projectsData, expandedEndpoints>>
    /\ UNCHANGED <<endpointTestCases, loadingTestCases, isCleared>>
    /\ UNCHANGED <<reportPending, togglePending>>
    /\ OnlyReports

ReportFulfilled ==
    /\ rpMounted
    /\ reportPending # None
    /\ \E noExecutions \in BOOLEAN :
         reportData' = Some(ReportData(reportPending[1], noExecutions))
    /\ rpLoading' = FALSE
    /\ reportPending' = None
    /\ UNCHANGED <<rpMounted, rpScope, days, reportMode, downloading>>
    /\ UNCHANGED <<projectsData, expandedEndpoints, endpointTestCases>>
    /\ UNCHANGED <<loadingTestCases, isCleared, projectsPending, togglePending>>
    /\ OnlyReports

\* the catch: only 'no last run' empties the report
ReportRejected ==
    /\ rpMounted
    /\ reportPending # None
    /\ \E status \in ReportFailures :
         reportData' = IF status = 404 /\ reportPending[1].mode = "last-run"
                       THEN None
                       ELSE reportData
    /\ rpLoading' = FALSE
    /\ reportPending' = None
    /\ UNCHANGED <<rpMounted, rpScope, days, reportMode, downloading>>
    /\ UNCHANGED <<projectsData, expandedEndpoints, endpointTestCases>>
    /\ UNCHANGED <<loadingTestCases, isCleared, projectsPending, togglePending>>
    /\ OnlyReports

\* the Report Type select
ChangeReportMode ==
    /\ ToolbarShown
    /\ \E m \in ReportModes \ {reportMode} :
         /\ reportMode' = m
         /\ days' = IF m = "period" THEN InitialDays ELSE days
         /\ ReportsEffect(m, days')
    /\ UNCHANGED <<rpMounted, rpScope, reportData, downloading, projectsData>>
    /\ UNCHANGED <<expandedEndpoints, endpointTestCases, loadingTestCases>>
    /\ UNCHANGED togglePending
    /\ OnlyReports

\* the Time Period select
ChangeDays ==
    /\ ToolbarShown
    /\ reportMode = "period"
    /\ \E d \in DayChoices \ {days} :
         /\ days' = d
         /\ ReportsEffect(reportMode, d)
    /\ UNCHANGED <<rpMounted, rpScope, reportData, reportMode, downloading>>
    /\ UNCHANGED <<projectsData, expandedEndpoints, endpointTestCases>>
    /\ UNCHANGED <<loadingTestCases, togglePending>>
    /\ OnlyReports

\* View Period Report on the 'no test executions' screen
ViewPeriodReport ==
    /\ Screen = "no-last-run"
    /\ reportMode' = "period"
    /\ ReportsEffect("period", days)
    /\ UNCHANGED <<rpMounted, rpScope, reportData, days, downloading>>
    /\ UNCHANGED <<projectsData, expandedEndpoints, endpointTestCases>>
    /\ UNCHANGED <<loadingTestCases, togglePending>>
    /\ OnlyReports

\* the Refresh button of the toolbar
RefreshReport ==
    /\ ToolbarShown
    /\ FetchReportData(reportMode, days)
    /\ UNCHANGED <<rpMounted, rpScope, reportData, days, reportMode>>
    /\ UNCHANGED <<downloading, projectsData, expandedEndpoints>>
    /\ UNCHANGED <<endpointTestCases, loadingTestCases, projectsPending>>
    /\ UNCHANGED togglePending
    /\ OnlyReports

\* the Refresh button of the global projects screen
RefreshProjects ==
    /\ Screen = "projects"
    /\ FetchProjectsData
    /\ FetchReportData(reportMode, days)
    /\ UNCHANGED <<rpMounted, rpScope, reportData, days, reportMode>>
    /\ UNCHANGED <<downloading, projectsData, expandedEndpoints>>
    /\ UNCHANGED <<endpointTestCases, loadingTestCases, togglePending>>
    /\ OnlyReports

\* the Clear button
ClearReport ==
    /\ Screen = "report"
    /\ reportData' = None
    /\ expandedEndpoints' = <<>>
    /\ endpointTestCases' = NoTestCases
    /\ loadingTestCases' = <<>>
    /\ rpLoading' = FALSE
    /\ isCleared' = TRUE
    /\ UNCHANGED <<rpMounted, rpScope, days, reportMode, downloading>>
    /\ UNCHANGED <<projectsData, reportPending, projectsPending, togglePending>>
    /\ OnlyReports

\* Download Excel, Download PDF
HandleDownload ==
    /\ Screen = "report"
    /\ ~downloading
    /\ downloading' = TRUE
    /\ UNCHANGED <<rpMounted, rpScope, reportData, rpLoading, days, reportMode>>
    /\ UNCHANGED <<projectsData, expandedEndpoints, endpointTestCases>>
    /\ UNCHANGED <<loadingTestCases, isCleared, reportPending>>
    /\ UNCHANGED <<projectsPending, togglePending>>
    /\ OnlyReports

DownloadSettled ==
    /\ rpMounted
    /\ downloading
    /\ downloading' = FALSE
    /\ UNCHANGED <<rpMounted, rpScope, reportData, rpLoading, days, reportMode>>
    /\ UNCHANGED <<projectsData, expandedEndpoints, endpointTestCases>>
    /\ UNCHANGED <<loadingTestCases, isCleared, reportPending>>
    /\ UNCHANGED <<projectsPending, togglePending>>
    /\ OnlyReports

\* the expand button of a row: collapse, or expand and fetch the test cases
\* that are not loaded yet; the request keeps the state of its render
HandleToggleReportEndpoint ==
    /\ Screen = "report"
    /\ \E e \in ReportEndpoints :
         IF SetHas(expandedEndpoints, e)
         THEN /\ expandedEndpoints' = SetDelete(expandedEndpoints, e)
              /\ UNCHANGED <<loadingTestCases, togglePending>>
         ELSE /\ expandedEndpoints' = SetAdd(expandedEndpoints, e)
              /\ IF endpointTestCases[e] = "undefined"
                 THEN /\ togglePending[e] = None
                      /\ loadingTestCases' = SetAdd(loadingTestCases, e)
                      /\ togglePending' =
                           [togglePending EXCEPT
                              ![e] = Some([endpointTestCases |-> endpointTestCases,
                                           loadingTestCases |-> loadingTestCases])]
                 ELSE UNCHANGED <<loadingTestCases, togglePending>>
    /\ UNCHANGED <<rpMounted, rpScope, reportData, rpLoading, days, reportMode>>
    /\ UNCHANGED <<downloading, projectsData, endpointTestCases, isCleared>>
    /\ UNCHANGED <<reportPending, projectsPending>>
    /\ OnlyReports

\* the answer to the test-cases request of a row
ToggleSettled ==
    /\ rpMounted
    /\ \E e \in ReportEndpoints :
         /\ togglePending[e] # None
         /\ \E answer \in {"cases", "empty"} :
              endpointTestCases' =
                [togglePending[e][1].endpointTestCases EXCEPT ![e] = answer]
         /\ loadingTestCases' = SetDelete(togglePending[e][1].loadingTestCases, e)
         /\ togglePending' = [togglePending EXCEPT ![e] = None]
    /\ UNCHANGED <<rpMounted, rpScope, reportData, rpLoading, days, reportMode>>
    /\ UNCHANGED <<downloading, projectsData, expandedEndpoints, isCleared>>
    /\ UNCHANGED <<reportPending, projectsPending>>
    /\ OnlyReports

(***************************************************************************)
(* Specifications                                                          *)
(***************************************************************************)
SuiteInit ==
    /\ SuiteEmpty
    /\ ExecIdle
    /\ ConfigClosed
    /\ ResultsClosed
    /\ IssueClosed
    /\ KeyClosed
    /\ TestSuiteClosed
    /\ ProjectClosed
    /\ ReportsClosed
    /\ IntegrationClosed
    /\ TestsIdle
    /\ ApiIdle
    /\ ViewsClosed

SuiteNext ==
    \/ Generate
    \/ DeleteCases
    \/ DeleteAll

SuiteSpec == SuiteInit /\ [][SuiteNext]_vars

ExecInit ==
    /\ ExecStarted(Selections)
    /\ SuiteEmpty
    /\ ConfigClosed
    /\ ResultsClosed
    /\ IssueClosed
    /\ KeyClosed
    /\ TestSuiteClosed
    /\ ProjectClosed
    /\ ReportsClosed
    /\ IntegrationClosed
    /\ TestsIdle
    /\ ApiIdle
    /\ ViewsClosed

ExecNext ==
    \/ FatalError
    \/ RunCase
    \/ Complete

ExecSpec == ExecInit /\ [][ExecNext]_vars

\* the executor's task keeps running as long as the process does not crash
ExecFairSpec == ExecSpec /\ WF_vars(RunCase) /\ WF_vars(Complete)

\* the Results page of an execution that was started, and the executor
ResultsInit ==
    /\ ExecStarted(AscendingSelections)
    /\ ResultsOpened
    /\ SuiteEmpty
    /\ ConfigClosed
    /\ IssueClosed
    /\ KeyClosed
    /\ TestSuiteClosed
    /\ ProjectClosed
    /\ ReportsClosed
    /\ IntegrationClosed
    /\ TestsIdle
    /\ ApiIdle
    /\ ViewsClosed

ResultsNext ==
    \/ FatalError
    \/ RunCase
    \/ Complete
    \/ SseMessage
    \/ SseError
    \/ IntervalTick
    \/ FetchFulfilled
    \/ FetchRejected
    \/ ResultsUnmount

ResultsSpec == ResultsInit /\ [][ResultsNext]_vars

\* the executor is fair whatever the page does; the page owes nothing
ResultsFairSpec == ResultsSpec /\ WF_vars(RunCase) /\ WF_vars(Complete)

\* the Results page with its issue dialog
ResultsIssueNext ==
    \/ FatalError
    \/ RunCase
    \/ Complete
    \/ SseMessage
    \/ SseError
    \/ IntervalTick
    \/ FetchFulfilled
    \/ FetchRejected
    \/ ResultsUnmount
    \/ HandleOpenIssueDialog
    \/ HandleCreateIssue
    \/ IssueSettled
    \/ CloseIssueDialog

ResultsIssueSpec == ResultsInit /\ [][ResultsIssueNext]_vars

\* the key of every endpoint, on either page
KeyInit ==
    /\ keySite \in {"ProjectDetail", "TestSuite"}
    /\ keyInput \in KeyEndpoints
    /\ keyText = Empty
    /\ keyOut = NoEndpoint
    /\ SuiteEmpty
    /\ ExecIdle
    /\ ConfigClosed
    /\ ResultsClosed
    /\ IssueClosed
    /\ TestSuiteClosed
    /\ ProjectClosed
    /\ ReportsClosed
    /\ IntegrationClosed
    /\ TestsIdle
    /\ ApiIdle
    /\ ViewsClosed

KeyNext ==
    \/ BuildKey
    \/ SplitKey

KeySpec == KeyInit /\ [][KeyNext]_vars

\* the test suite page: selection, execution and deletion
TestSuiteInit ==
    /\ TestSuiteLoaded
    /\ ExecIdle
    /\ ConfigClosed
    /\ ResultsClosed
    /\ IssueClosed
    /\ KeyClosed
    /\ ProjectClosed
    /\ ReportsClosed
    /\ IntegrationClosed
    /\ TestsIdle
    /\ ApiIdle
    /\ ViewsClosed

TestSuiteNext ==
    \/ HandleSelectTest
    \/ HandleSelectAll
    \/ HandleDeselectAll
    \/ HandleSelectEndpoint
    \/ HandleExecuteSelected
    \/ ExecuteSettled
    \/ HandleDeleteEndpoint
    \/ HandleDeleteAll
    \/ DeleteFulfilled
    \/ DeleteRejected
    \/ ReloadFulfilled
    \/ ReloadRejected

TestSuiteSpec == TestSuiteInit /\ [][TestSuiteNext]_vars

\* the test suite page: the edit dialog and single runs
TestEditNext ==
    \/ HandleEditTest
    \/ HandleCloseEditDialog
    \/ EditPayload
    \/ EditHeaders
    \/ HandleAddAssertion
    \/ HandleEditAssertion
    \/ ChangeAssertion
    \/ CancelAssertion
    \/ HandleSaveAssertion
    \/ HandleDeleteAssertion
    \/ HandleRunSingleTest
    \/ SingleSettled

TestEditSpec == TestSuiteInit /\ [][TestEditNext]_vars

\* the project page, on a project with or without generated test cases
ProjectInit ==
    /\ ProjectOpened
    /\ \E E \in SUBSET Endpoints :
         /\ suite = NewCases(<<>>, E, 0)
         /\ createdIndex = [i \in 1..Len(suite) |-> suite[i].index]
    /\ ExecIdle
    /\ ConfigClosed
    /\ ResultsClosed
    /\ IssueClosed
    /\ KeyClosed
    /\ TestSuiteClosed
    /\ ReportsClosed
    /\ IntegrationClosed
    /\ TestsIdle
    /\ ApiIdle
    /\ ViewsClosed

ProjectNext ==
    \/ LatestSettled
    \/ GeneratedFulfilled
    \/ GeneratedRejected
    \/ HandleToggleEndpoint
    \/ HandleSelectAllEndpoints
    \/ HandleDeselectAllEndpoints
    \/ HandleTabChange
    \/ HandleGenerateTests
    \/ GenerateSettled
    \/ RefreshSettled

ProjectSpec == ProjectInit /\ [][ProjectNext]_vars

ConfigInit ==
    /\ ConfigClosed
    /\ SuiteEmpty
    /\ ExecIdle
    /\ ResultsClosed
    /\ IssueClosed
    /\ KeyClosed
    /\ TestSuiteClosed
    /\ ProjectClosed
    /\ ReportsClosed
    /\ IntegrationClosed
    /\ TestsIdle
    /\ ApiIdle
    /\ ViewsClosed

ConfigNext ==
    \/ Mount
    \/ FetchConfigFulfilled
    \/ FetchConfigRejected
    \/ HandleChange
    \/ LlmKeyChange
    \/ LlmKeyFocus
    \/ LlmKeyBlur
    \/ HandleSubmit
    \/ SaveSettled
    \/ TestLlmClick
    \/ TestLlmSettled
    \/ ReenterAnswered

\* the configuration page of one project: the form, its secrets, save and
\* the test of the LLM connection
ConfigSpec == ConfigInit /\ [][ConfigNext]_vars

ConfigFormNext ==
    \/ Mount
    \/ FetchConfigFulfilled
    \/ FetchConfigRejected
    \/ HandleChangeSelect
    \/ HandleChangeUrl
    \/ LlmKeyChange
    \/ LlmKeyFocus
    \/ LlmKeyBlur
    \/ HandleLoadConfigTemplate

\* the configuration page of one project: the fields filled from the config
\* and from a reusable configuration
ConfigFormSpec == ConfigInit /\ [][ConfigFormNext]_vars

ConfigVisitNext ==
    \/ MountAny
    \/ FetchConfigFulfilled
    \/ FetchConfigRejected
    \/ HandleChangeSelect
    \/ HandleSubmit
    \/ SaveSettled

\* visits to the configuration pages of several projects, one after another
ConfigVisitSpec == ConfigInit /\ [][ConfigVisitNext]_vars

ReportsInit ==
    /\ ReportsClosed
    /\ SuiteEmpty
    /\ ExecIdle
    /\ ConfigClosed
    /\ ResultsClosed
    /\ IssueClosed
    /\ KeyClosed
    /\ TestSuiteClosed
    /\ ProjectClosed
    /\ IntegrationClosed
    /\ TestsIdle
    /\ ApiIdle
    /\ ViewsClosed

ReportsNext ==
    \/ ReportsMount
    \/ ReportsLeave
    \/ ProjectsFulfilled
    \/ ProjectsRejected
    \/ ReportFulfilled
    \/ ReportRejected
    \/ ChangeReportMode
    \/ ChangeDays
    \/ ViewPeriodReport
    \/ RefreshReport
    \/ RefreshProjects
    \/ ClearReport
    \/ HandleDownload
    \/ DownloadSettled
    \/ HandleToggleReportEndpoint
    \/ ToggleSettled

\* the Reports page, opened on the global, a project's or a suite's report
ReportsSpec == ReportsInit /\ [][ReportsNext]_vars

\* the integrations section, on a project with any stored settings
IntegrationInit ==
    /\ intOpen = FALSE
    /\ IntegrationFresh
    /\ intStored \in [IntProviders -> StoredKinds]
    /\ ConfigClosed
    /\ SuiteEmpty
    /\ ExecIdle
    /\ ResultsClosed
    /\ IssueClosed
    /\ KeyClosed
    /\ TestSuiteClosed
    /\ ProjectClosed
    /\ ReportsClosed
    /\ TestsIdle
    /\ ApiIdle
    /\ ViewsClosed

IntegrationNext ==
    \/ IntegrationsOpen
    \/ IntegrationsLeave
    \/ LoadIntegrationsFulfilled
    \/ LoadIntegrationsRejected
    \/ ChangeIntegrationProvider
    \/ ChangeIntegrationToken
    \/ SaveIntegrationClick
    \/ SaveIntegrationFulfilled
    \/ SaveIntegrationRejected

IntegrationSpec == IntegrationInit /\ [][IntegrationNext]_vars

\* the tests slice, with requests dispatched at any time
TestsInit ==
    /\ TestsIdle
    /\ ProjectClosed
    /\ ConfigClosed
    /\ SuiteEmpty
    /\ ExecIdle
    /\ ResultsClosed
    /\ IssueClosed
    /\ KeyClosed
    /\ TestSuiteClosed
    /\ ReportsClosed
    /\ IntegrationClosed
    /\ ApiIdle
    /\ ViewsClosed

TestsNext ==
    \/ DispatchThunk
    \/ TestsGenerateFulfilled
    \/ TestsGenerateRejected
    \/ TestsExecuteFulfilled
    \/ TestsExecuteRejected
    \/ TestsFetchExecutionSettled
    \/ TestsLatestSettled

TestsSliceSpec == TestsInit /\ [][TestsNext]_vars

\* the api client, with requests, answers and token writes in any order
ApiInit ==
    /\ ApiIdle
    /\ TestsIdle
    /\ ProjectClosed
    /\ ConfigClosed
    /\ SuiteEmpty
    /\ ExecIdle
    /\ ResultsClosed
    /\ IssueClosed
    /\ KeyClosed
    /\ TestSuiteClosed
    /\ ReportsClosed
    /\ IntegrationClosed
    /\ ViewsClosed

ApiNext ==
    \/ ApiStoreToken
    \/ ApiRequest
    \/ ApiResponse

ApiSpec == ApiInit /\ [][ApiNext]_vars

\* the two views of the test suite page, over every suite and search text
ViewsInit ==
    /\ ViewsOpen
    /\ ApiIdle
    /\ TestsIdle
    /\ ProjectClosed
    /\ ConfigClosed
    /\ SuiteEmpty
    /\ ExecIdle
    /\ ResultsClosed
    /\ IssueClosed
    /\ KeyClosed
    /\ TestSuiteClosed
    /\ ReportsClosed
    /\ IntegrationClosed

ViewsNext ==
    \/ SetSearchQuery
    \/ SetViewMode

ViewsSpec == ViewsInit /\ [][ViewsNext]_vars

(***************************************************************************)
(* Properties of the configuration page                                    *)
(***************************************************************************)
\* a save request is sent in this step
SaveSent == request.kind = "none" /\ request'.kind = "save"

\* the secret field of the chosen auth type
AuthSecretField(t) ==
    IF t = "basic" THEN "auth_password"
    ELSE IF t = "bearer" THEN "auth_token" ELSE "auth_key_value"

\* C1: a save sent while a key is stored and the key field is empty does not
\* contain the llm_api_key field at all
C1_StoredLlmKeyKept ==
    [][(SaveSent /\ HasLlmKey /\ formData.llm_api_key = Empty)
         => "llm_api_key" \notin DOMAIN request'.body]_vars

C1_Witness ==
    /\ request.kind = "save"
    /\ HasLlmKey
    /\ formData.llm_api_key = Empty
    /\ "llm_api_key" \notin DOMAIN request.body

\* C2: a save sent while a credential is on file and the secret field of the
\* chosen auth type is empty carries no value for that secret field
C2_AuthSecretNotSent ==
    [][(SaveSent /\ HasAuth /\ formData.auth_type \in {"basic", "bearer", "api_key"}
          /\ formData[AuthSecretField(formData.auth_type)] = Empty)
         => AuthSecretField(formData.auth_type) \notin DOMAIN request'.body]_vars

TemplateOf(configId) == CHOOSE t \in Templates : t.config_id = configId

\* C21: after an existing configuration is picked under Load Existing Config
\* and the effects have run, base_url, auth_type and llm_provider of the form
\* are those of that configuration and every secret field is empty
C21_TemplateShown ==
    [][(selectedConfigId' # selectedConfigId /\ selectedConfigId' # "")
         => formData' = TemplateForm(TemplateOf(selectedConfigId'))]_vars

\* C22: a change of one form field leaves the other fields as they are: after
\* a change of the LLM provider, a focus or a blur of the LLM key field, the
\* base URL and the auth type are as before, and a chosen provider stays chosen
C22_OtherFieldsKept ==
    [][/\ (\/ \E v \in Providers \ {formData.llm_provider} :
                ChangeField("llm_provider", v)
           \/ LlmKeyFocus
           \/ LlmKeyBlur)
            => /\ formData'.base_url = formData.base_url
               /\ formData'.auth_type = formData.auth_type
       /\ \A v \in Providers \ {formData.llm_provider} :
            ChangeField("llm_provider", v) => formData'.llm_provider = v]_vars

\* C23: when the fetchConfig of the page's project settles, fulfilled or
\* rejected, the store holds the configuration of that project or none
C23_ConfigOfProject ==
    [][(cfgPending /\ ~cfgPending')
         => (~config'.present \/ config'.project = projectId')]_vars

\* C30: the page is left for the project page only by a save request that
\* succeeded: the step that navigates does not record a failed save
C30_NavigateAfterSuccess ==
    [][(mounted /\ ~mounted') => cfgError' # SaveError]_vars

\* C29: hasExistingIntegrationToken is true only if the server stores a
\* token for the integration provider that is selected
C29_TokenFlagTrue ==
    (intOpen /\ hasExistingIntegrationToken)
        => intStored[integrationProvider] = "token"

(***************************************************************************)
(* Properties of the views of the test suite page                          *)
(***************************************************************************)
\* C28: for every suite and search text the grouped view and the list view
\* show the same test cases; every one of them has exactly one row in the
\* grouped view, in the group of its method:endpoint and type; and with an
\* empty search text they are all the cases of the suite
C28_ViewsAgree ==
    LET rows == GroupedRows(TestCasesByEndpoint(viewTests, searchQuery))
        listed == FilteredTests(viewTests, searchQuery)
    IN /\ {row.testCase : row \in rows} = {listed[i] : i \in 1..Len(listed)}
       /\ \A i \in 1..Len(listed) :
            /\ Cardinality({row \in rows : row.testCase = listed[i]}) = 1
            /\ \A row \in rows :
                 row.testCase = listed[i]
                    => /\ row.endpointKey = listed[i].method \o <<":">> \o listed[i].endpoint
                       /\ row.type = TestType(listed[i])
       /\ searchQuery = Empty => listed = viewTests

\* a search text that keeps one case of two, through its description only
C28_Witness ==
    /\ viewMode = "list"
    /\ searchQuery = <<"d">>
    /\ Len(viewTests) = 2
    /\ Len(FilteredTests(viewTests, searchQuery)) = 1
    /\ Cardinality(GroupedRows(TestCasesByEndpoint(viewTests, searchQuery))) = 1

(***************************************************************************)
(* Properties of the api client                                            *)
(***************************************************************************)
\* C27: a 401 answer removes the stored token; every request sent after it,
\* until a token is stored again, carries no Authorization header; and every
\* response error, the 401 included, is rejected to the caller
C27_UnauthorizedDropsToken ==
    [][/\ \A i \in 1..Len(apiInFlight) :
            ApiResponded(i, 401) => apiToken' = None
       /\ \A i \in 1..Len(apiInFlight), answer \in Answers \ {200} :
            ApiResponded(i, answer)
                => apiOutcome' = [kind |-> "rejected", answer |-> answer]
       /\ \A k \in 1..Len(apiInFlight') :
            apiInFlight'[k].after401 => apiInFlight'[k].headers = None]_vars

\* a request sent with the token is still in flight, a 401 was rejected to the
\* caller, and a request sent after it is in flight without the header
C27_Witness ==
    /\ apiOutcome = [kind |-> "rejected", answer |-> 401]
    /\ apiToken = None
    /\ Len(apiInFlight) = 2
    /\ ~apiInFlight[1].after401 /\ apiInFlight[1].headers = Some(Bearer \o <<"t">>)
    /\ apiInFlight[2].after401 /\ apiInFlight[2].headers = None

(***************************************************************************)
(* Properties of the tests slice                                           *)
(***************************************************************************)
\* C24: fetchLatestTestSuite starts with the error cleared; a 404 fulfils with
\* null: testSuite is null, loading is false and no error is set; any other
\* failure ends with loading false, an error message and testSuite null
C24_LatestNotFound ==
    [][/\ ThunkPending("fetchLatestTestSuite") => testError' = NoError
       /\ LatestAnswered(404)
            => /\ storeTestSuite' = None
               /\ ~testLoading'
               /\ testError' = testError
       /\ (\E status \in Statuses \ {200, 404} : LatestAnswered(status))
            => /\ storeTestSuite' = None
               /\ ~testLoading'
               /\ testError' # NoError]_vars

C24_Witness ==
    /\ latestAnswer = 404
    /\ storeTestSuite = None
    /\ ~testLoading
    /\ testError = NoError
    /\ pendingThunks["fetchLatestTestSuite"] = 0

\* C26: loading is true whenever a generateTests, executeTests or
\* fetchLatestTestSuite request is pending
C26_LoadingWhilePending ==
    (\E thunk \in LoadingThunks : pendingThunks[thunk] > 0) => testLoading

(***************************************************************************)
(* Properties of the Results page and of the executor                      *)
(***************************************************************************)
\* C4: after an SSE error the page keeps polling (the interval stays armed)
\* for as long as the execution it shows is running
C4_PollsWhileRunning ==
    (/\ resMounted
     /\ sse = "failed"
     /\ fetching = 0
     /\ execution.present
     /\ execution.status = "running") => polling

\* C5: a payload leaves the page in the same view state whether it arrives
\* as an SSE message or as the answer to a polling request
C5_SameView == ViewAfterMessage(View, Snapshot) = ViewAfterFetch(View, Snapshot)

C5_Witness ==
    /\ sources = {"sse", "poll"}
    /\ execution = Snapshot
    /\ ~loading
    /\ Len(requests) = NumCases

\* C6: a running execution reaches a terminal status, whatever the page does
C6_Terminates == (execStatus = "running") ~> (execStatus \in {"completed", "failed"})

C6_Witness ==
    /\ execStatus = "completed"
    /\ Len(results) = NumCases
    /\ ~resMounted
    /\ ~execution.present

\* C7: at completion passed + failed + errors = total = number of results
C7_SummaryAddsUp ==
    execStatus = "completed"
        => /\ summary.passed + summary.failed + summary.errors = summary.total
           /\ summary.total = Len(results)

C7_Witness ==
    /\ execStatus = "completed"
    /\ Len(results) = NumCases
    /\ summary.passed > 0
    /\ summary.failed > 0
    /\ summary.errors > 0

\* C8: a timeout or connection failure of a case gives that case a result
\* with status error and does not end the batch: the execution does not fail,
\* and at completion every selected case has its own result, in order
C8_BatchGoesOn ==
    /\ Len(results) = Len(outcomes)
    /\ \A i \in 1..Len(outcomes) :
         outcomes[i] \in TransportFailures
            => /\ results[i].status = "error"
               /\ results[i].test_case_index = selected[i]
    /\ (\E i \in 1..Len(outcomes) : outcomes[i] \in TransportFailures)
         => execStatus # "failed"
    /\ execStatus = "completed"
         => /\ Len(results) = Len(selected)
            /\ \A i \in 1..Len(selected) : results[i].test_case_index = selected[i]

C8_Witness ==
    /\ execStatus = "completed"
    /\ Len(selected) = NumCases
    /\ outcomes[1] \in TransportFailures
    /\ \A i \in 2..NumCases : results[i].status = "passed"

\* C11: progress counts the results, the results are in scheduling order,
\* and what a reader has seen at a position is what the execution holds at
\* that position from then on: the results the page shows, the result its
\* issue dialog was opened on and the position an issue request names
C11_ResultsAppendOnly ==
    /\ summary.progress = Len(results)
    /\ \A i \in 1..Len(results) : results[i].test_case_index = selected[i]
    /\ execution.present
         => /\ execution.summary.progress = Len(execution.results)
            /\ Len(execution.results) <= Len(results)
            /\ \A i \in 1..Len(execution.results) : results[i] = execution.results[i]
    /\ selectedTestIndex # -1
         => /\ selectedTestIndex < Len(results)
            /\ results[selectedTestIndex + 1] = issueFor
    /\ issueRequest # NoIssueRequest
         => results[issueRequest.test_index + 1] = issueRequest.result

C11_Witness ==
    /\ issueRequest.test_index > 0
    /\ execution.status = "running"
    /\ execStatus = "completed"
    /\ Len(results) > Len(execution.results)

(***************************************************************************)
(* Properties of the endpoint keys                                         *)
(***************************************************************************)
\* C17: the endpoint read back from a key has the path of the endpoint the
\* key was built for, and its method in upper case
C17_KeyRoundTrip ==
    keyOut # NoEndpoint
      => /\ keyOut.path = keyInput.path
         /\ keyOut.method = ToUpperCase(keyInput.method)

\* C12: the edit dialog and the run of a single test leave the loaded test
\* cases and the stored ones as they are, and the test_case of a run request
\* is the loaded test case with that index
C12_EditLeavesSuite ==
    [][/\ testSuite' = testSuite
       /\ suite' = suite
       /\ storedAssertions' = storedAssertions
       /\ singleRequest'.sent
            => /\ singleRequest'.test_case =
                    LoadedCase(testSuite.all_tests, singleRequest'.test_case.index)
               /\ singleRequest'.test_case \in
                    {TestCaseOf(suite[i]) : i \in 1..Len(suite)}]_vars

C12_Witness ==
    /\ singleRequest.sent
    /\ singleRequest.useEdited
    /\ singleRequest.modified_payload # None
    /\ singleRequest.modified_payload # singleRequest.test_case.payload
    /\ Len(singleRequest.dialogAssertions) > Len(singleRequest.test_case.assertions)
    /\ singleRequest.test_case.assertions # <<>>

\* C13: the modified_assertions of a run with changes are the assertions the
\* dialog held when the request was sent
C13_DialogAssertionsSent ==
    (singleRequest.sent /\ singleRequest.useEdited)
      => singleRequest.modified_assertions = Some(singleRequest.dialogAssertions)

(***************************************************************************)
(* Properties of the project page                                          *)
(***************************************************************************)
\* C18: no endpoint of the generated set is listed for selection, and no
\* endpoint of a generate request was in the generated set the page held
\* when the request was sent
C18_GeneratedNotRequested ==
    /\ \A i \in 1..Len(FilteredEndpoints) :
          GetEndpointKey(FilteredEndpoints[i]) \notin generatedEndpoints
    /\ (generateRequest.phase = "generate"
          /\ generateRequest.selected_endpoints # None)
         => \A i \in 1..Len(generateRequest.selected_endpoints[1]) :
               GetEndpointKey(generateRequest.selected_endpoints[1][i])
                 \notin generateRequest.generated

(***************************************************************************)
(* Properties of the test suite page                                       *)
(***************************************************************************)
\* C14: an execute request is sent only by Execute Selected with a selection
\* that is not empty, one request at a time, and its test_indices are the
\* selection of that moment
C14_ExecuteSendsSelection ==
    [][(executeRequest' # executeRequest /\ executeRequest'.sent)
         => /\ ~executeRequest.sent
            /\ selectedTests # <<>>
            /\ executeRequest'.test_indices = selectedTests]_vars

C14_Witness ==
    /\ executeRequest.sent
    /\ Len(executeRequest.test_indices) < Len(testSuite.all_tests)
    /\ Len(executeRequest.test_indices) > 1
    /\ executeRequest.test_indices[1] > executeRequest.test_indices[2]

\* C15: every index of the selection is the index of a test case of the
\* loaded suite
C15_SelectionInSuite ==
    \A i \in 1..Len(selectedTests) :
       SetHas(IndicesOf(testSuite.all_tests), selectedTests[i])

\* C16: the delete request of a group lists exactly one endpoint, and a
\* delete request without a list of endpoints comes from Delete All after
\* the user has confirmed
C16_DeleteRequests ==
    deleteRequest.phase = "delete"
      => /\ deleteRequest.by = "endpoint"
              => /\ deleteRequest.endpoints # None
                 /\ Len(deleteRequest.endpoints[1]) = 1
         /\ deleteRequest.endpoints = None
              => /\ deleteRequest.by = "all"
                 /\ deleteRequest.confirmed

C16_Witness ==
    /\ deleteRequest.phase = "delete"
    /\ deleteRequest.by = "all"
    /\ Len(testSuite.all_tests) < Len(createdIndex)

(***************************************************************************)
(* Properties of the Reports page                                          *)
(***************************************************************************)
\* C20: once Clear was pressed the report stays cleared: as long as the page
\* is not left, no step asks for a report or shows one again
C20_StaysCleared ==
    [][(rpMounted /\ isCleared)
         => \/ ~rpMounted'
            \/ /\ isCleared'
               /\ reportData' = None
               /\ reportPending' = None]_vars

\* C25: on the report screen, once no test-cases load is in flight, every
\* expanded endpoint has its test cases recorded and none is marked as loading
C25_LoadsAllRecorded ==
    (Screen = "report" /\ \A e \in ReportEndpoints : togglePending[e] = None)
        => /\ \A e \in ReportEndpoints :
                SetHas(expandedEndpoints, e) => endpointTestCases[e] # "undefined"
           /\ loadingTestCases = <<>>

(***************************************************************************)
(* Properties of the test suite                                            *)
(***************************************************************************)
\* C9: the indices of the cases of the suite are pairwise distinct and
\* every case has the index it was created with
C9_IndicesStable ==
    /\ \A i, j \in 1..Len(suite) : i # j => suite[i].index # suite[j].index
    /\ \A i \in 1..Len(suite) : suite[i].index = createdIndex[suite[i].uid]

C9_Witness ==
    /\ Len(suite) >= 2
    /\ Len(createdIndex) > Len(suite)
    /\ suite[1].index > 0
    /\ suite[Len(suite)].uid = Len(createdIndex)

\* C10: an index assigned to one test case is never assigned to another
C10_IndexNeverReused ==
    \A u, v \in 1..Len(createdIndex) : u # v => createdIndex[u] # createdIndex[v]

====
